---- MODULE Spec2Model ----
(***************************************************************************)
(* Discovery engine of dotstate (package discover): the path classifier,   *)
(* the filesystem scanner with its sub-repository detector, the secret     *)
(* pass and the report, as one state machine.                              *)
(*                                                                         *)
(* Strings.  A file name is a sequence of tokens; "." and every substring  *)
(* the code searches for are tokens of their own, so strings.Contains,     *)
(* HasSuffix and filepath.Ext are computed on token sequences.  A path is  *)
(* a sequence of names; PathStr joins them with "/" as the code sees it.   *)
(***************************************************************************)
EXTENDS Integers, Sequences, FiniteSets, TLC

VARIABLES
    fs,            \* the filesystem snapshot the scan reads
    opts,          \* ScanOptions / Options of this run
    ctxDone,       \* the context has been cancelled
    pc,            \* position of Discoverer.Run
    rootIdx,       \* index of the root Scanner.Scan is at
    todo,          \* WalkDir's pending entries of the current root, in visit order
    result,        \* *Result being built by Scanner.Scan
    scanErr,       \* the error Scanner.Scan returned ("" = nil)
    lastClassify,  \* the Candidate the last Classifier.Classify call returned
    secIdx,        \* index of the candidate UpdateCandidates is at
    preSecrets,    \* the candidates as UpdateCandidates received them
    contents,      \* per candidate, the file content the secret pass read
    report,        \* lines printed by Prompter.PrintReport
    prev,          \* outcome of an earlier scan and secret pass on the same snapshot
    input,         \* the lines the prompter still has to read
    picked,        \* keys of SelectCandidates' selected map (display numbers)
    selected,      \* the candidates SelectCandidates returned
    events,        \* calls Run made to its tools and prompts, with their outcome
    manifest,      \* content of the sub-repository manifest file
    runErr         \* the error Discoverer.Run returned ("" = nil)

\* the variables of Run after the secret pass
runVars == <<input, picked, selected, events, manifest, runErr>>

vars == <<fs, opts, ctxDone, pc, rootIdx, todo, result, scanErr, lastClassify,
          secIdx, preSecrets, contents, report, prev, runVars>>

---------------------------------------------------------------------------
(* Strings and paths                                                       *)

\* strings.ToLower on one token
LowerTok(t) ==
    CASE t = "Application Support" -> "application support"
      [] t = "AppData" -> "appdata"
      [] t = "Library" -> "library"
      [] t = "Code" -> "code"
      [] t = "User" -> "user"
      [] t = "Cargo" -> "cargo"
      [] t = "Config" -> "config"
      [] t = "Settings" -> "settings"
      [] OTHER -> t

ToLower(s) == [i \in 1..Len(s) |-> LowerTok(s[i])]

Contains(s, sub) ==
    \E i \in 0..(Len(s) - Len(sub)) : SubSeq(s, i + 1, i + Len(sub)) = sub

HasPrefix(s, pre) == Len(pre) <= Len(s) /\ SubSeq(s, 1, Len(pre)) = pre

HasSuffix(s, suf) ==
    Len(suf) <= Len(s) /\ SubSeq(s, Len(s) - Len(suf) + 1, Len(s)) = suf

RECURSIVE PathStr(_)
PathStr(path) ==
    IF path = <<>> THEN <<>>
    ELSE PathStr(SubSeq(path, 1, Len(path) - 1)) \o <<"/">> \o path[Len(path)]

Base(path) == path[Len(path)]
Dir(path) == SubSeq(path, 1, Len(path) - 1)

\* filepath.Ext: the suffix of the last element that starts at its last dot
RECURSIVE Ext(_)
Ext(name) ==
    IF name = <<>> THEN <<>>
    ELSE IF \A i \in 1..Len(name) : name[i] # "." THEN <<>>
    ELSE IF Head(name) = "." /\ \A i \in 2..Len(name) : name[i] # "." THEN name
    ELSE Ext(Tail(name))

fileExt(path) == ToLower(Ext(Base(path)))
baseName(path) == ToLower(Base(path))

containsAny(s, substrs) ==
    \E sub \in substrs : Contains(ToLower(s), ToLower(sub))

matchesAny(s, patterns) ==
    \E p \in patterns : ToLower(s) = ToLower(p)

\* p lies strictly below directory d
Below(p, d) == Len(p) > Len(d) /\ SubSeq(p, 1, Len(d)) = d

---------------------------------------------------------------------------
(* Category (iota order) and Candidate                                     *)

CategoryIgnored == 0
CategoryRisky == 1
CategoryMaybe == 2
CategoryRecommended == 3

DefaultMaxFileSize == 2 * 1024 * 1024

NoCandidate == [Path |-> <<>>, Category |-> CategoryIgnored, Score |-> 0, Size |-> 0,
                IsDir |-> FALSE, IsSubRepo |-> FALSE, SubRepoURL |-> "",
                SubRepoBranch |-> "", Reasons |-> <<>>, SecretWarnings |-> <<>>]

---------------------------------------------------------------------------
(* Classifier tables (NewClassifier)                                       *)

configExtensions ==
    { <<".", "json">>, <<".", "toml">>, <<".", "yaml">>, <<".", "yml">>,
      <<".", "ini">>, <<".", "conf">>, <<".", "config">>, <<".", "cfg">>,
      <<".", "plist">>, <<".", "lua">>, <<".", "vim">>, <<".", "el">>,
      <<".", "kdl">>, <<".", "ron">>, <<".", "properties">>, <<".", "xml">> }

knownConfigs ==
    { <<<<".", "git", "config">>, 100>>, <<<<".", "gitignore_global">>, 80>>,
      <<<<".", "gitignore">>, 60>>, <<<<"config">>, 50>>,
      <<<<".", "zshrc">>, 100>>, <<<<".", "zshenv">>, 90>>,
      <<<<".", "zprofile">>, 80>>, <<<<".", "bashrc">>, 100>>,
      <<<<".", "bash_profile">>, 90>>, <<<<".", "profile">>, 80>>,
      <<<<".", "inputrc">>, 70>>,
      <<<<".", "vimrc">>, 100>>, <<<<".", "gvimrc">>, 80>>,
      <<<<"init", ".", "vim">>, 100>>, <<<<"init", ".", "lua">>, 100>>,
      <<<<".", "emacs">>, 100>>, <<<<"init", ".", "el">>, 100>>,
      <<<<".", "nanorc">>, 80>>, <<<<".", "editor", "config">>, 90>>,
      <<<<".", "tmux", ".", "conf">>, 100>>, <<<<".", "screenrc">>, 80>>,
      <<<<"alacritty", ".", "yml">>, 100>>, <<<<"alacritty", ".", "toml">>, 100>>,
      <<<<"kitty", ".", "conf">>, 100>>, <<<<"wezterm", ".", "lua">>, 100>>,
      <<<<"starship", ".", "toml">>, 100>>,
      <<<<".", "npmrc">>, 80>>, <<<<".", "yarnrc">>, 80>>,
      <<<<".", "yarnrc", ".", "yml">>, 80>>, <<<<".", "cargo">>, 70>>,
      <<<<"Cargo", ".", "toml">>, 60>>,
      <<<<".", "curlrc">>, 70>>, <<<<".", "wgetrc">>, 70>>,
      <<<<".", "ripgreprc">>, 70>>, <<<<".", "rgignore">>, 70>>,
      <<<<".", "fdignore">>, 70>>, <<<<".", "ignore">>, 60>>,
      <<<<"settings", ".", "json">>, 100>>, <<<<"keybindings", ".", "json">>, 100>>,
      <<<<"keymap", ".", "json">>, 90>>, <<<<"themes", ".", "json">>, 80>>,
      <<<<"tasks", ".", "json">>, 70>>, <<<<"launch", ".", "json">>, 70>>,
      <<<<"config", ".", "fish">>, 100>>, <<<<"config", ".", "kdl">>, 90>>,
      <<<<"config", ".", "toml">>, 80>>, <<<<"config", ".", "yaml">>, 80>>,
      <<<<"config", ".", "yml">>, 80>>, <<<<"config", ".", "json">>, 80>> }

IsKnownConfig(name) == \E e \in knownConfigs : e[1] = name
KnownBoost(name) == (CHOOSE e \in knownConfigs : e[1] = name)[2]

riskyPatterns ==
    { <<"id_rsa">>, <<"id_ed25519">>, <<"id_ecdsa">>, <<"id_dsa">>,
      <<".", "pem">>, <<".", "p12">>, <<".", "pfx">>, <<".", "key">>, <<".", "crt">>,
      <<"token">>, <<"secret">>, <<"password">>, <<"credential">>,
      <<"kube", "config">>, <<"auth">>, <<"api_key">>, <<"apikey">>,
      <<"private">>, <<"oauth">> }

riskyNames ==
    { <<".", "netrc">>, <<".", "npmrc">>, <<".", "pypirc">>,
      <<".", "gem", "/", "credential", "s">>,
      <<".", "docker", "/", "config", ".", "json">>,
      <<".", "kube", "/", "config">>,
      <<"credential", "s">>, <<"credential", "s", ".", "json">>,
      <<"service-account", ".", "json">>,
      <<".", "env">>, <<".", "env", ".", "local">>, <<".", "env", ".", "production">> }

---------------------------------------------------------------------------
(* Classifier                                                              *)

\* Classifier.isRisky: the risky-pattern gate
isRisky(path, name) ==
    LET pathLower == ToLower(PathStr(path))
        nameLower == ToLower(name)
    IN  \/ \E pattern \in riskyPatterns : Contains(pathLower, pattern)
        \/ \E risky \in riskyNames :
              \/ nameLower = ToLower(risky)
              \/ HasSuffix(pathLower, ToLower(risky))
        \/ /\ containsAny(PathStr(path), {<<".", "ssh">>})
           /\ ~matchesAny(name, {<<"config">>, <<"known_hosts">>,
                                 <<"known_hosts", ".", "old">>,
                                 <<"auth", "orized_keys">>})
        \/ /\ containsAny(PathStr(path), {<<".", "gnupg">>, <<"gnupg">>})
           /\ ~containsAny(name, {<<"pubring">>, <<"trustdb">>})

IsConfigExtension(path) == fileExt(path) \in configExtensions

IsSafeSSHFile(name) ==
    matchesAny(name, {<<"config">>, <<"known_hosts">>, <<"known_hosts", ".", "old">>,
                      <<"auth", "orized_keys">>, <<"auth", "orized_keys", "2">>})

\* the known-config lookup of Classify: lower-cased base name first, then the raw one
KnownScore(path) ==
    IF IsKnownConfig(baseName(path)) THEN KnownBoost(baseName(path))
    ELSE IF IsKnownConfig(Base(path)) THEN KnownBoost(Base(path))
    ELSE 0

\* the additive score of Classify and its reasons, in the code's order
ScoreOf(path, size, home) ==
      KnownScore(path)
    + (IF fileExt(path) \in configExtensions THEN 30 ELSE 0)
    + (IF containsAny(PathStr(path), {<<".", "config">>, <<"config">>}) THEN 20 ELSE 0)
    + (IF containsAny(PathStr(path), {<<"Application Support">>, <<"AppData">>})
       THEN 10 ELSE 0)
    - (IF size > 100 * 1024 THEN 10 ELSE 0)
    - (IF size > 1024 * 1024 THEN 20 ELSE 0)
    + (IF HasPrefix(baseName(path), <<".">>) /\ Dir(path) = home THEN 40 ELSE 0)

ReasonsOf(path, size, home) ==
       (IF IsKnownConfig(baseName(path)) \/ IsKnownConfig(Base(path))
        THEN <<"known config file">> ELSE <<>>)
    \o (IF fileExt(path) \in configExtensions THEN <<"config extension">> ELSE <<>>)
    \o (IF containsAny(PathStr(path), {<<".", "config">>, <<"config">>})
        THEN <<"in config directory">> ELSE <<>>)
    \o (IF containsAny(PathStr(path), {<<"Application Support">>, <<"AppData">>})
        THEN <<"in app data directory">> ELSE <<>>)
    \o (IF size > 100 * 1024 THEN <<"large file">> ELSE <<>>)
    \o (IF HasPrefix(baseName(path), <<".">>) /\ Dir(path) = home
        THEN <<"home dotfile">> ELSE <<>>)

\* a plausible slip: the Recommended threshold compared with > instead of >=
BandStrict(score) ==
    IF score > 70 THEN CategoryRecommended
    ELSE IF score >= 30 THEN CategoryMaybe
    ELSE IF score > 0 THEN CategoryMaybe
    ELSE CategoryIgnored

\* the switch that bands the final score
Band(score) ==
    IF score >= 70 THEN CategoryRecommended
    ELSE IF score >= 30 THEN CategoryMaybe
    ELSE IF score > 0 THEN CategoryMaybe
    ELSE CategoryIgnored

\* a plausible slip: the known-config lookup placed before the risky gate
ClassifyKnownFirst(path, size, isDir, home) ==
    LET base == [NoCandidate EXCEPT !.Path = path, !.Size = size, !.IsDir = isDir]
    IN  IF isRisky(path, baseName(path)) /\ KnownScore(path) = 0
        THEN [base EXCEPT !.Category = CategoryRisky,
                          !.Reasons = <<"potentially contains secrets">>]
        ELSE [base EXCEPT !.Score = ScoreOf(path, size, home),
                          !.Reasons = ReasonsOf(path, size, home),
                          !.Category = Band(ScoreOf(path, size, home))]

\* Classifier.Classify
Classify(path, size, isDir, home) ==
    LET base == [NoCandidate EXCEPT !.Path = path, !.Size = size, !.IsDir = isDir]
    IN  IF isRisky(path, baseName(path))
        THEN [base EXCEPT !.Category = CategoryRisky,
                          !.Reasons = <<"potentially contains secrets">>]
        ELSE [base EXCEPT !.Score = ScoreOf(path, size, home),
                          !.Reasons = ReasonsOf(path, size, home),
                          !.Category = Band(ScoreOf(path, size, home))]

---------------------------------------------------------------------------
(* Candidate list ordering (CandidateList.Less, sort.Sort)                 *)

\* a plausible slip: the score tie-break left out
LessCategoryOnly(a, b) == a.Category > b.Category

\* a plausible slip: ties decided by something that differs from run to run
LessSeeded(a, b) ==
    IF a.Category # b.Category THEN a.Category > b.Category
    ELSE IF a.Score # b.Score THEN a.Score > b.Score
    ELSE prev.done

\* CandidateList.Less on two candidates
Less(a, b) ==
    IF a.Category # b.Category THEN a.Category > b.Category
    ELSE a.Score > b.Score

\* one insertion of sort's insertionSort: x sinks from the end while Less(x, previous)
RECURSIVE InsertBack(_, _)
InsertBack(sorted, x) ==
    IF sorted = <<>> THEN <<x>>
    ELSE IF Less(x, sorted[Len(sorted)])
         THEN Append(InsertBack(SubSeq(sorted, 1, Len(sorted) - 1), x), sorted[Len(sorted)])
         ELSE Append(sorted, x)

\* sort.Sort(result.Candidates): pdqsort sorts a slice of at most 12 elements by
\* insertion sort, and every scan of the model stays below that length
RECURSIVE SortCandidates(_)
SortCandidates(l) ==
    IF l = <<>> THEN <<>>
    ELSE InsertBack(SortCandidates(SubSeq(l, 1, Len(l) - 1)), l[Len(l)])

\* CandidateList.ByCategory
ByCategory(l, cat) == SelectSeq(l, LAMBDA c : c.Category = cat)

---------------------------------------------------------------------------
(* Scanner                                                                 *)

excludeNames ==
    { <<".", "git">>, <<".", "svn">>, <<".", "hg">>,
      <<"node_modules">>, <<"vendor">>, <<"__pycache__">>, <<".", "venv">>, <<"venv">>,
      <<"build">>, <<"dist">>, <<"target">>,
      <<"Cache">>, <<"Caches">>, <<"GPUCache">>, <<"Code Cache">>, <<"ShaderCache">>,
      <<"CachedData">>, <<"CachedExtensions">>, <<"CachedExtensionVSIXs">>,
      <<"Logs">>, <<"logs">>, <<"Crashpad">>, <<"Crashes">>,
      <<"Temp">>, <<"tmp">>,
      <<"Steam">>, <<"Epic Games">>, <<"GOG Galaxy">>,
      <<"Electron">>, <<"blob_storage">>, <<"IndexedDB">>, <<"Local Storage">>,
      <<"Session Storage">>, <<"Service Worker">>, <<"databases">> }

browserDirs ==
    { <<"Firefox">>, <<"Mozilla">>, <<"Google">>, <<"Chrome">>, <<"Chromium">>,
      <<"Microsoft">>, <<"Edge">>, <<"BraveSoftware">>, <<"Arc">>, <<"Safari">> }

\* Scanner.shouldExcludeDir
shouldExcludeDir(path, name) ==
    \/ name \in excludeNames
    \/ /\ name \in browserDirs
       /\ containsAny(PathStr(path),
                      {<<"Profiles">>, <<"User Data">>, <<"Application Support">>})

\* filepath.Clean on the names of a path: a ".." name drops the name before it
DotDot == <<".", ".">>

RECURSIVE CleanFrom(_, _)
CleanFrom(names, acc) ==
    IF names = <<>> THEN acc
    ELSE IF Head(names) = DotDot /\ acc # <<>>
    THEN CleanFrom(Tail(names), SubSeq(acc, 1, Len(acc) - 1))
    ELSE CleanFrom(Tail(names), Append(acc, Head(names)))

\* filepath.Join
Join(a, b) == CleanFrom(a \o b, <<>>)

\* the path of the .git entry of a repository directory
DotGit(repoPath) == Append(repoPath, <<".", "git">>)

ConfigName == <<"config">>
HeadName == <<"HEAD">>

\* The git metadata of a repository directory g: dotgit tells whether .git is a
\* directory or a regular file; pointer is the content of that file (whether it can
\* be read, whether it starts with "gitdir:", the path after it); store holds the
\* metadata files that exist and can be read, by path.
\* The lines of a git config file:
Section(origin) == [kind |-> "section", origin |-> origin, val |-> ""]
URLLine(val) == [kind |-> "url", origin |-> FALSE, val |-> val]
URLNoEquals == [kind |-> "urlnoeq", origin |-> FALSE, val |-> ""]
OtherLine == [kind |-> "other", origin |-> FALSE, val |-> ""]

\* a plausible slip: the gitdir redirection of a .git file not followed
MetaPathIgnoresPointer(g, repoPath, leaf) ==
    IF g.dotgit = "file" /\ ~g.pointer.readable
    THEN [err |-> "read failed", path |-> <<>>]
    ELSE [err |-> "", path |-> Append(DotGit(repoPath), leaf)]

\* getRemoteURL / getCurrentBranch, up to the open of the metadata file: the path of
\* the file to read, or the error of reading the .git file
MetaPath(g, repoPath, leaf) ==
    IF g.dotgit = "file"
    THEN IF ~g.pointer.readable
         THEN [err |-> "read failed", path |-> <<>>]
         ELSE IF g.pointer.gitdir
         THEN [err |-> "",
               path |-> Join(IF g.pointer.abs THEN g.pointer.target
                             ELSE Join(repoPath, g.pointer.target),
                             <<leaf>>)]
         ELSE [err |-> "", path |-> Append(DotGit(repoPath), leaf)]
    ELSE [err |-> "", path |-> Append(DotGit(repoPath), leaf)]

\* getRemoteURL, the scan of the config file: the value of the first url line with
\* an "=" inside a [remote "origin"] section
RECURSIVE ParseConfig(_, _, _)
ParseConfig(lines, n, inOriginSection) ==
    IF n > Len(lines) THEN [url |-> "", err |-> ""]
    ELSE IF lines[n].kind = "section"
    THEN ParseConfig(lines, n + 1, lines[n].origin)
    ELSE IF inOriginSection /\ lines[n].kind = "url"
    THEN [url |-> lines[n].val, err |-> ""]
    ELSE ParseConfig(lines, n + 1, inOriginSection)

\* SubRepoDetector.getRemoteURL
getRemoteURL(g, repoPath) ==
    LET m == MetaPath(g, repoPath, ConfigName)
    IN  IF m.err # "" THEN [url |-> "", err |-> m.err]
        ELSE IF m.path \notin DOMAIN g.store THEN [url |-> "", err |-> "open failed"]
        ELSE ParseConfig(g.store[m.path].lines, 1, FALSE)

\* SubRepoDetector.getCurrentBranch
getCurrentBranch(g, repoPath) ==
    LET m == MetaPath(g, repoPath, HeadName)
    IN  IF m.err # "" THEN [branch |-> "", err |-> m.err]
        ELSE IF m.path \notin DOMAIN g.store THEN [branch |-> "", err |-> "read failed"]
        ELSE IF g.store[m.path].ref
        THEN [branch |-> g.store[m.path].branch, err |-> ""]
        ELSE [branch |-> "", err |-> ""]

\* SubRepoDetector.IsSubRepo: path/.git exists as a directory or a regular file
IsSubRepo(f, path) == path \in DOMAIN f.repos

\* a plausible slip: a repository without a remote keeps the score it started with
AnalyzeKeepsScore(f, path) ==
    LET g == f.repos[path]
        remote == getRemoteURL(g, path)
        head == getCurrentBranch(g, path)
        base == [NoCandidate EXCEPT
                   !.Path = path, !.IsDir = TRUE, !.IsSubRepo = TRUE,
                   !.SubRepoBranch = IF head.err = "" THEN head.branch ELSE ""]
    IN  [candidate |->
            IF remote.err = "" /\ remote.url # ""
            THEN [base EXCEPT !.Category = CategoryRecommended, !.Score = 100,
                              !.SubRepoURL = remote.url,
                              !.Reasons = <<"git sub-repository", "has remote">>]
            ELSE [base EXCEPT !.Category = CategoryMaybe, !.Score = 100,
                              !.Reasons = <<"git sub-repository",
                                            "local-only repository (no remote)">>],
         err |-> ""]

\* SubRepoDetector.Analyze: (candidate, err)
Analyze(f, path) ==
    LET g == f.repos[path]
        remote == getRemoteURL(g, path)
        head == getCurrentBranch(g, path)
        base == [NoCandidate EXCEPT
                   !.Path = path, !.IsDir = TRUE, !.IsSubRepo = TRUE,
                   !.SubRepoBranch = IF head.err = "" THEN head.branch ELSE ""]
    IN  [candidate |->
            IF remote.err = "" /\ remote.url # ""
            THEN [base EXCEPT !.Category = CategoryRecommended, !.Score = 100,
                              !.SubRepoURL = remote.url,
                              !.Reasons = <<"git sub-repository", "has remote">>]
            ELSE [base EXCEPT !.Category = CategoryMaybe, !.Score = 50,
                              !.Reasons = <<"git sub-repository",
                                            "local-only repository (no remote)">>],
         err |-> ""]

\* scanRoot, lines 207-214: the candidate is appended when Analyze returned no error
AppendSubRepo(res, f, path) ==
    LET a == Analyze(f, path)
    IN  IF a.err = ""
        THEN [res EXCEPT !.SubRepos = Append(@, a.candidate),
                         !.Candidates = Append(@, a.candidate)]
        ELSE res

\* does processFile reach the Classify call for this file
ReachesClassify(path, size, o) ==
    /\ path \notin o.ManagedPaths
    /\ ~(size > o.MaxFileSize /\ ~IsConfigExtension(path))

\* a plausible slip: the already-managed test left out
processFileIgnoresManaged(path, size, res, o) ==
    LET r1 == [res EXCEPT !.ScannedFiles = @ + 1]
    IN  IF size > o.MaxFileSize /\ ~IsConfigExtension(path) THEN r1
        ELSE IF Classify(path, size, FALSE, o.Home).Category = CategoryIgnored THEN r1
        ELSE [r1 EXCEPT !.Candidates = Append(@, Classify(path, size, FALSE, o.Home))]

\* Scanner.processFile: the Result after the call
processFile(path, size, res, o) ==
    LET r1 == [res EXCEPT !.ScannedFiles = @ + 1]
    IN  IF ~ReachesClassify(path, size, o) THEN r1
        ELSE IF Classify(path, size, FALSE, o.Home).Category = CategoryIgnored THEN r1
        ELSE [r1 EXCEPT !.Candidates = Append(@, Classify(path, size, FALSE, o.Home))]

---------------------------------------------------------------------------
(* The filesystem the scans of the model run on                            *)

Home == << <<"home">>, <<"u">> >>

DotConfig == Home \o << <<".", "config">> >>
AppDir == DotConfig \o << <<"app">> >>
NvimDir == DotConfig \o << <<"nvim">> >>
LuaDir == NvimDir \o << <<"lua">> >>
VendorDir == DotConfig \o << <<"vendor">> >>
PkgDir == VendorDir \o << <<"pkg">> >>

GitconfigFile == Home \o << <<".", "git", "config">> >>
SettingsFile == AppDir \o << <<"settings", ".", "json">> >>
DataFile == AppDir \o << <<"data", ".", "bin">> >>
TokenFile == AppDir \o << <<"api_", "token">> >>
InitLuaFile == NvimDir \o << <<"init", ".", "lua">> >>
OptsLuaFile == LuaDir \o << <<"opts", ".", "lua">> >>
VendorSettingsFile == VendorDir \o << <<"settings", ".", "json">> >>
PkgConfigFile == PkgDir \o << <<"config", ".", "toml">> >>
MissingPath == Home \o << <<"fish">> >>

BaseDirs == {DotConfig, AppDir, NvimDir, LuaDir, VendorDir, PkgDir}

\* every regular file with its size; data.bin is larger than 1 MiB
BaseFiles ==
    (GitconfigFile :> 50) @@ (SettingsFile :> 2048) @@ (DataFile :> 1536 * 1024) @@
    (TokenFile :> 100) @@ (InitLuaFile :> 4096) @@ (OptsLuaFile :> 200000) @@
    (VendorSettingsFile :> 2048) @@ (PkgConfigFile :> 300)

\* the content of a metadata file: a config file has lines, a HEAD file is a
\* reference to a branch or a commit hash
ConfigFile(lines) == [lines |-> lines, ref |-> FALSE, branch |-> ""]
HeadFile(ref, branch) == [lines |-> <<>>, ref |-> ref, branch |-> branch]

NoPointer == [readable |-> FALSE, gitdir |-> FALSE, abs |-> FALSE, target |-> <<>>]

ConfigOrigin(url) ==
    ConfigFile(<<Section(FALSE), OtherLine, Section(TRUE), URLLine(url), OtherLine>>)
ConfigNoRemote == ConfigFile(<<Section(FALSE), OtherLine>>)

\* an ordinary repository at path: .git is a directory holding config and HEAD;
\* an empty url stands for no origin remote, an empty branch for a detached HEAD
Repo(path, url, branch) ==
    [dotgit |-> "dir", pointer |-> NoPointer,
     store |-> (Append(DotGit(path), ConfigName)
                   :> (IF url = "" THEN ConfigNoRemote ELSE ConfigOrigin(url)))
               @@ (Append(DotGit(path), HeadName) :> HeadFile(branch # "", branch))]

NoRepos == [d \in {} |-> Repo(d, "", "")]
RepoChoices ==
    { NoRepos,
      NvimDir :> Repo(NvimDir, "https://example.com/user/nvim-config", "main"),
      NvimDir :> Repo(NvimDir, "", "") }

\* the metadata a sub-repository directory can carry
OriginURL == "https://example.com/user/nvim-config"
UpstreamURL == "https://example.com/upstream/nvim-config"

ConfigChoices ==
    { ConfigOrigin(OriginURL),
      ConfigNoRemote,
      ConfigFile(<<Section(FALSE), URLLine(UpstreamURL)>>),
      ConfigFile(<<Section(TRUE), URLLine("")>>),
      ConfigFile(<<Section(TRUE), URLNoEquals, Section(FALSE), URLLine(UpstreamURL)>>) }

HeadChoices == { HeadFile(TRUE, "main"), HeadFile(FALSE, "") }

EmptyStore == [q \in {} |-> ConfigNoRemote]

\* the stores holding, below dir, one of the config files or none and one of the HEAD
\* files or none
StoresAt(dir, configs, heads) ==
    { c @@ h :
        c \in {EmptyStore} \cup { Append(dir, ConfigName) :> cf : cf \in configs },
        h \in {EmptyStore} \cup { Append(dir, HeadName) :> hf : hf \in heads } }

\* where the .git file of a submodule or worktree at ~/.config/nvim points
GitModulesNvim == Home \o << <<".", "git">>, <<"modules">>, <<"nvim">> >>
RelToModules == << DotDot, DotDot, <<".", "git">>, <<"modules">>, <<"nvim">> >>

GitMetaChoices ==
    { [dotgit |-> "dir", pointer |-> NoPointer, store |-> st] :
        st \in StoresAt(DotGit(NvimDir), ConfigChoices, HeadChoices) }
    \cup
    { [dotgit |-> "file",
       pointer |-> [readable |-> TRUE, gitdir |-> TRUE, abs |-> a,
                    target |-> IF a THEN GitModulesNvim ELSE RelToModules],
       store |-> st] :
        a \in BOOLEAN,
        st \in StoresAt(GitModulesNvim, {ConfigOrigin(OriginURL), ConfigNoRemote},
                        HeadChoices) }
    \cup
    { [dotgit |-> "file",
       pointer |-> [readable |-> r, gitdir |-> FALSE, abs |-> FALSE, target |-> <<>>],
       store |-> (Append(GitModulesNvim, ConfigName) :> ConfigOrigin(OriginURL))
                 @@ (Append(GitModulesNvim, HeadName) :> HeadFile(TRUE, "main"))] :
        r \in BOOLEAN }

RootChoices ==
    { DotConfig, NvimDir, LuaDir, PkgDir, GitconfigFile, VendorSettingsFile,
      InitLuaFile, MissingPath }

MaxRoots == 2

RootLists == UNION { [1..n -> RootChoices] : n \in 1..MaxRoots }

\* the root lists of the full runs
RunRootLists ==
    { <<DotConfig, GitconfigFile>>, <<GitconfigFile, DotConfig, NvimDir>>,
      <<AppDir>>, <<PkgDir, InitLuaFile>> }

\* the already-managed set: empty, or a walked file and a file given as root
ManagedChoices == { {}, {SettingsFile, GitconfigFile} }

\* the scans with entries that cannot be read: root lists, directories whose
\* listing is denied, files whose info cannot be read
ErrRootLists ==
    { <<DotConfig>>, <<DotConfig, GitconfigFile>>, <<AppDir, NvimDir>>,
      <<LuaDir, InitLuaFile>> }
\* roots with the paths among them whose os.Stat fails with an error that is not
\* "does not exist"
RootErrWorlds ==
    { [roots |-> <<NvimDir, GitconfigFile>>, statErr |-> {NvimDir}],
      [roots |-> <<AppDir, NvimDir, GitconfigFile>>, statErr |-> {AppDir, NvimDir}],
      [roots |-> <<GitconfigFile, AppDir>>, statErr |-> {AppDir}],
      [roots |-> <<DotConfig>>, statErr |-> {DotConfig}],
      [roots |-> <<MissingPath, AppDir, NvimDir>>, statErr |-> {}] }
DeniedChoices == { {}, {AppDir}, {LuaDir}, {DotConfig} }
BrokenChoices == { {}, {SettingsFile}, {OptsLuaFile, DataFile} }

\* os.ReadDir returns the entries sorted by file name (byte order)
NameOrder ==
    << <<".", "config">>, <<".", "git", "config">>, <<"api_", "token">>, <<"app">>,
       <<"config", ".", "fish">>, <<"config", ".", "toml">>, <<"data", ".", "bin">>,
       <<"fish">>, <<"init", ".", "lua">>, <<"lua">>, <<"nvim">>,
       <<"opts", ".", "lua">>, <<"pkg">>, <<"settings", ".", "json">>, <<"vendor">> >>

NameRank(n) ==
    IF \E i \in 1..Len(NameOrder) : NameOrder[i] = n
    THEN CHOOSE i \in 1..Len(NameOrder) : NameOrder[i] = n
    ELSE 0

Entries(f) == f.dirs \cup DOMAIN f.files

RECURSIVE SortByName(_)
SortByName(S) ==
    IF S = {} THEN <<>>
    ELSE LET first == CHOOSE p \in S : \A q \in S : NameRank(Base(p)) <= NameRank(Base(q))
         IN  <<first>> \o SortByName(S \ {first})

\* os.ReadDir(dir) as WalkDir entries
ReadDir(f, dir) ==
    LET sorted == SortByName({p \in Entries(f) : Dir(p) = dir})
    IN  [i \in 1..Len(sorted) |-> [path |-> sorted[i], readErr |-> FALSE]]

EmptyResult == [Candidates |-> <<>>, SubRepos |-> <<>>, Errors |-> <<>>,
                ScannedDirs |-> 0, ScannedFiles |-> 0]

---------------------------------------------------------------------------
(* Secret detector                                                         *)

\* defaultSecretPatterns, in table order
PatternOrder ==
    << "aws-access-key", "aws-secret-key", "github-token", "github-oauth",
       "gitlab-token", "slack-token", "slack-webhook", "discord-webhook",
       "stripe-key", "stripe-restricted", "twilio-key", "sendgrid-key", "npm-token",
       "pypi-token", "heroku-key", "google-api-key", "google-oauth", "firebase-key",
       "azure-key", "digitalocean-token", "1password-token",
       "rsa-private-key", "openssh-private-key", "dsa-private-key", "ec-private-key",
       "pgp-private-key", "age-secret-key",
       "password-assignment", "secret-assignment", "token-assignment",
       "auth-assignment",
       "postgres-uri", "mysql-uri", "mongodb-uri", "redis-uri", "jwt-token" >>

\* A file content: whether os.Open succeeds, and its lines; a line is either longer
\* than bufio.Scanner's buffer or carries the set of patterns whose regexp matches it.
Line(hits) == [long |-> FALSE, hits |-> hits]
LongLine == [long |-> TRUE, hits |-> {}]

ContentClean == [open |-> TRUE, lines |-> <<Line({}), Line({})>>]
ContentSecret == [open |-> TRUE, lines |-> <<Line({}), Line({"password-assignment"})>>]
ContentTwo ==
    [open |-> TRUE, lines |-> <<Line({"token-assignment", "github-token"}), Line({})>>]
ContentSecretThenLong ==
    [open |-> TRUE, lines |-> <<Line({"password-assignment"}), LongLine>>]
ContentUnreadable == [open |-> FALSE, lines |-> <<>>]
NotRead == [open |-> FALSE, lines |-> <<LongLine>>]

ContentKinds ==
    {ContentClean, ContentSecret, ContentTwo, ContentSecretThenLong, ContentUnreadable}

\* the findings of one line: every pattern of the table that matches, in table order
LineFindings(hits, lineNum) ==
    LET ids == SelectSeq(PatternOrder, LAMBDA id : id \in hits)
    IN  [i \in 1..Len(ids) |-> [PatternID |-> ids[i], Line |-> lineNum]]

RECURSIVE ScanLines(_, _, _, _)
ScanLines(lines, n, acc, cancelled) ==
    IF n > Len(lines) THEN [findings |-> acc, err |-> ""]
    ELSE IF lines[n].long THEN [findings |-> acc, err |-> "token too long"]
    ELSE IF cancelled THEN [findings |-> acc, err |-> "context canceled"]
    ELSE ScanLines(lines, n + 1, acc \o LineFindings(lines[n].hits, n), cancelled)

\* SecretDetector.ScanFile: (findings, err)
ScanFile(content, cancelled) ==
    IF ~content.open THEN [findings |-> <<>>, err |-> "open failed"]
    ELSE ScanLines(content.lines, 1, <<>>, cancelled)

\* a plausible slip: the reason appended for every scanned file
updateCandidateAlwaysNotes(c, content, cancelled) ==
    IF c.IsDir \/ c.IsSubRepo THEN c
    ELSE LET r == ScanFile(content, cancelled)
         IN  IF r.err # "" THEN c
             ELSE [c EXCEPT
                     !.Category = IF Len(r.findings) > 0
                                     /\ @ \in {CategoryRecommended, CategoryMaybe}
                                  THEN CategoryRisky ELSE @,
                     !.SecretWarnings = @ \o r.findings,
                     !.Reasons = Append(@, "potential secrets detected")]

\* the body of UpdateCandidates' loop for one candidate
updateCandidate(c, content, cancelled) ==
    IF c.IsDir \/ c.IsSubRepo THEN c
    ELSE LET r == ScanFile(content, cancelled)
         IN  IF r.err # "" THEN c
             ELSE IF Len(r.findings) > 0
             THEN [c EXCEPT
                     !.Category = IF @ \in {CategoryRecommended, CategoryMaybe}
                                  THEN CategoryRisky ELSE @,
                     !.SecretWarnings = @ \o r.findings,
                     !.Reasons = Append(@, "potential secrets detected")]
             ELSE c

---------------------------------------------------------------------------
(* Report                                                                  *)

ReportLines(cands, cat) ==
    LET group == ByCategory(cands, cat)
    IN  IF group = <<>> THEN <<>>
        ELSE <<[kind |-> "header", cat |-> cat, path |-> <<>>, score |-> Len(group)]>>
             \o [i \in 1..Len(group) |->
                   [kind |-> IF group[i].IsSubRepo THEN "repo"
                             ELSE IF group[i].IsDir THEN "dir" ELSE "file",
                    cat |-> cat, path |-> group[i].Path, score |-> group[i].Score]]

\* Prompter.PrintReport: the candidate part of the output
PrintReport(res) ==
    ReportLines(res.Candidates, CategoryRecommended)
    \o ReportLines(res.Candidates, CategoryMaybe)
    \o ReportLines(res.Candidates, CategoryRisky)

---------------------------------------------------------------------------
(* Inputs of the classifier runs: one regular file given as the only root   *)

SshDir == Home \o << <<".", "ssh">> >>
GnupgDir == Home \o << <<".", "gnupg">> >>
KubeDir == Home \o << <<".", "kube">> >>
DocsDir == Home \o << <<"docs">> >>
CodeDir == Home \o << <<"Library">>, <<"Application Support">>, <<"Code">> >>
EtcDir == << <<"etc">> >>

ClassifyDirs == {Home, AppDir, SshDir, GnupgDir, KubeDir, DocsDir, CodeDir, EtcDir}

ClassifyNames ==
    { <<".", "git", "config">>, <<".", "zshrc">>, <<"settings", ".", "json">>,
      <<"config">>, <<"config", ".", "toml">>, <<"Cargo", ".", "toml">>,
      <<"data", ".", "bin">>, <<"data", ".", "json">>, <<"notes">>, <<".", "hidden">>,
      <<".", "npmrc">>, <<"id_rsa">>, <<"known_hosts">>, <<"auth", "orized_keys">>,
      <<"auth", "orized_keys", "2">>, <<"api_", "token">>, <<"secret", ".", "json">>,
      <<".", "env">>, <<"server", ".", "key">>, <<"pubring", ".", "kbx">>,
      <<"init", ".", "lua">>, <<"credential", "s">> }

ClassifySizes ==
    { 50, 100 * 1024, 100 * 1024 + 1, 1024 * 1024, 1024 * 1024 + 1,
      DefaultMaxFileSize, DefaultMaxFileSize + 1 }

---------------------------------------------------------------------------
(* Inputs of the secret-pass runs: candidate lists as a caller may build    *)

SecretPaths == {SettingsFile, GitconfigFile}

CandChoices ==
    { [NoCandidate EXCEPT !.Path = p, !.Category = cat, !.Score = 10 * cat,
                          !.Reasons = <<"test">>] :
        p \in SecretPaths, cat \in CategoryIgnored..CategoryRecommended }
    \cup { [NoCandidate EXCEPT !.Path = AppDir, !.IsDir = TRUE,
                               !.Category = CategoryMaybe, !.Score = 20],
           [NoCandidate EXCEPT !.Path = NvimDir, !.IsDir = TRUE, !.IsSubRepo = TRUE,
                               !.Category = CategoryRecommended, !.Score = 100,
                               !.Reasons = <<"git sub-repository">>] }

MaxCands == 2

CandLists == UNION { [1..n -> CandChoices] : n \in 1..MaxCands }

\* files whose content varies between the runs of the model
VarContentPaths == {SettingsFile, GitconfigFile, OptsLuaFile}

\* what reading candidate i's file can return: a file already read in this pass,
\* or in an earlier run on the same snapshot, reads the same again
ContentChoices(c, i) ==
    IF c.IsDir \/ c.IsSubRepo THEN {NotRead}
    ELSE IF \E j \in 1..(i - 1) : preSecrets[j].Path = c.Path /\ contents[j] # NotRead
    THEN {contents[CHOOSE j \in 1..(i - 1) :
                     preSecrets[j].Path = c.Path /\ contents[j] # NotRead]}
    ELSE IF \E j \in 1..Len(prev.paths) :
                prev.paths[j] = c.Path /\ prev.contents[j] # NotRead
    THEN {prev.contents[CHOOSE j \in 1..Len(prev.paths) :
                          prev.paths[j] = c.Path /\ prev.contents[j] # NotRead]}
    ELSE IF c.Path \in VarContentPaths THEN ContentKinds
    ELSE {ContentClean}

---------------------------------------------------------------------------
(* Selection, add and commit                                               *)

\* relPath: the path relative to home with "~/" in front, or the path itself
relPath(path, home) ==
    IF home # <<>> /\ (path = home \/ Below(path, home))
    THEN [tilde |-> TRUE, rel |-> SubSeq(path, Len(home) + 1, Len(path))]
    ELSE [tilde |-> FALSE, rel |-> path]

\* the candidates in the order SelectCandidates numbers them
Display(cands) ==
    ByCategory(cands, CategoryRecommended) \o ByCategory(cands, CategoryMaybe)
    \o ByCategory(cands, CategoryRisky)

\* a plausible slip: the Maybe group pre-selected as well
PreSelectedWithMaybe(cands) ==
    1..(Len(ByCategory(cands, CategoryRecommended))
        + Len(ByCategory(cands, CategoryMaybe)))

\* SelectCandidates: the numbers of the Recommended group are pre-selected
PreSelected(cands) == 1..Len(ByCategory(cands, CategoryRecommended))

\* parseSelection: does the number name a displayed candidate
ValidNumber(num, cands) ==
    LET r == Len(ByCategory(cands, CategoryRecommended))
        m == Len(ByCategory(cands, CategoryMaybe))
        k == Len(ByCategory(cands, CategoryRisky))
        maybeStart == r + 1
        riskyStart == r + m + 1
    IN  \/ num >= 1 /\ num < maybeStart /\ num <= r
        \/ num >= maybeStart /\ num < riskyStart /\ num - maybeStart < m
        \/ num >= riskyStart /\ num - riskyStart < k

\* parseSelection: the keys of the selected map after the comma-separated parts;
\* "-N" deletes key N, "+N" and a bare "N" set it
RECURSIVE parseSelection(_, _, _)
parseSelection(parts, sel, cands) ==
    IF parts = <<>> THEN sel
    ELSE LET part == Head(parts)
             next == IF ~ValidNumber(part.num, cands) THEN sel
                     ELSE IF part.sign = "-" THEN sel \ {part.num}
                     ELSE sel \cup {part.num}
         IN  parseSelection(Tail(parts), next, cands)

\* the orders in which ranging over a map with key set S can yield its keys
Orders(S) ==
    { f \in [1..Cardinality(S) -> S] :
        \A i, j \in 1..Cardinality(S) : i # j => f[i] # f[j] }

\* the slices SelectCandidates can return for the selected keys
ItemsOf(sel, cands) ==
    { [i \in 1..Len(o) |-> Display(cands)[o[i]]] : o \in Orders(sel) }

\* one line typed at the selection prompt
Cmd(kind, parts) == [kind |-> kind, parts |-> parts]
Part(sign, num) == [sign |-> sign, num |-> num]

\* one call of Run to a tool or a prompt, with its outcome
Event(op, flags, files, ok) == [op |-> op, flags |-> flags, files |-> files, ok |-> ok]

\* a plausible slip: every selected candidate handed to chezmoi add
AddFilesAll(sel) == [i \in 1..Len(sel) |-> sel[i].Path]

\* addCandidates: the paths of the selected candidates that are no sub-repository
AddFiles(sel) ==
    LET files == SelectSeq(sel, LAMBDA c : ~c.IsSubRepo)
    IN  [i \in 1..Len(files) |-> files[i].Path]

\* addCandidates: the selected sub-repositories
SubReposOf(sel) == SelectSeq(sel, LAMBDA c : c.IsSubRepo)

\* Chezmoi.Add: the arguments between "add" and the files
AddFlags(o) == IF o.SecretsMode = "error" THEN <<"--secrets=error">> ELSE <<>>

\* a plausible slip: a record for every sub-repository, local-only ones included
ManifestsAll(subRepos, home) ==
    [i \in 1..Len(subRepos) |->
        [path |-> relPath(subRepos[i].Path, home), url |-> subRepos[i].SubRepoURL,
         branch |-> subRepos[i].SubRepoBranch]]

\* handleSubRepos: the manifest records (an empty branch is left out of the file)
Manifests(subRepos, home) ==
    LET remote == SelectSeq(subRepos, LAMBDA r : r.SubRepoURL # "")
    IN  [i \in 1..Len(remote) |->
            [path |-> relPath(remote[i].Path, home), url |-> remote[i].SubRepoURL,
             branch |-> remote[i].SubRepoBranch]]

---------------------------------------------------------------------------
(* Initial states                                                          *)

\* the whole runs: filesystems with their roots, option sets, typed lines
TwoRepos ==
    (NvimDir :> Repo(NvimDir, "https://example.com/user/nvim-config", "main"))
    @@ (PkgDir :> Repo(PkgDir, "", ""))

\* two with a remote, one of them on a detached HEAD (no branch)
DetachedRepos ==
    (NvimDir :> Repo(NvimDir, "https://example.com/user/nvim-config", ""))
    @@ (PkgDir :> Repo(PkgDir, "https://example.com/user/pkg", "dev"))

RunWorlds ==
    { [repos |-> TwoRepos, roots |-> <<AppDir, NvimDir, PkgDir>>],
      [repos |-> NoRepos, roots |-> <<AppDir>>],
      [repos |-> TwoRepos, roots |-> <<PkgDir>>],
      [repos |-> TwoRepos, roots |-> <<NvimDir, NvimDir>>],
      [repos |-> DetachedRepos, roots |-> <<NvimDir, PkgDir>>],
      [repos |-> NoRepos, roots |-> <<MissingPath>>] }

RunMode(auto, dry, nocommit, reportOnly, secrets) ==
    [AutoYes |-> auto, DryRun |-> dry, NoCommit |-> nocommit, ReportOnly |-> reportOnly,
     SecretsMode |-> secrets]

RunModes ==
    { RunMode(FALSE, FALSE, FALSE, FALSE, "error"),
      RunMode(TRUE, FALSE, TRUE, FALSE, "ignore"),
      RunMode(TRUE, FALSE, FALSE, FALSE, "warning"),
      RunMode(FALSE, TRUE, FALSE, FALSE, "error"),
      RunMode(TRUE, TRUE, FALSE, FALSE, "error"),
      RunMode(TRUE, FALSE, FALSE, TRUE, "error"),
      RunMode(FALSE, FALSE, TRUE, FALSE, "ignore") }

InputScripts ==
    { <<>>,
      <<Cmd("quit", <<>>)>>,
      <<Cmd("accept", <<>>)>>,
      <<Cmd("all", <<>>), Cmd("accept", <<>>)>>,
      <<Cmd("none", <<>>), Cmd("accept", <<>>)>>,
      <<Cmd("none", <<>>), Cmd("parts", <<Part("", 2)>>), Cmd("accept", <<>>)>>,
      <<Cmd("parts", <<Part("+", 3), Part("-", 1)>>), Cmd("accept", <<>>)>>,
      <<Cmd("parts", <<Part("", 99)>>), Cmd("all", <<>>)>>,
      <<Cmd("parts", <<Part("", 1)>>), Cmd("accept", <<>>)>>,
      <<Cmd("none", <<>>), Cmd("parts", <<Part("", 2)>>), Cmd("parts", <<Part("", 2)>>),
        Cmd("accept", <<>>)>> }

\* no earlier run
NoPrev == [done |-> FALSE, cands |-> <<>>, paths |-> <<>>, contents |-> <<>>]

\* the manifest file does not exist
NoFile == [exists |-> FALSE, subrepo |-> <<>>]

Idle ==
    /\ ctxDone = FALSE
    /\ rootIdx = 1
    /\ todo = <<>>
    /\ scanErr = ""
    /\ lastClassify = NoCandidate
    /\ secIdx = 1
    /\ contents = <<>>
    /\ report = <<>>
    /\ prev = NoPrev
    /\ input = <<>>
    /\ picked = {}
    /\ selected = <<>>
    /\ events = <<>>
    /\ manifest = NoFile
    /\ runErr = ""

\* Discoverer.Run about to call Scanner.Scan
Init ==
    /\ fs \in { [dirs |-> BaseDirs, files |-> BaseFiles, repos |-> r,
               denied |-> {}, broken |-> {}, statErr |-> {}] : r \in RepoChoices }
    /\ opts \in { [Roots |-> rs, ManagedPaths |-> m, MaxFileSize |-> DefaultMaxFileSize,
                   Home |-> Home, SecretsMode |-> sm, ReportOnly |-> ro,
                   AutoYes |-> FALSE, DryRun |-> FALSE, NoCommit |-> FALSE] :
                    rs \in RunRootLists, m \in ManagedChoices,
                    sm \in {"error", "ignore"}, ro \in BOOLEAN }
    /\ pc = "scan"
    /\ result = EmptyResult
    /\ preSecrets = <<>>
    /\ Idle

\* Scanner.Scan called with any list of roots
InitScan ==
    /\ fs \in { [dirs |-> BaseDirs, files |-> BaseFiles, repos |-> r,
               denied |-> {}, broken |-> {}, statErr |-> {}] : r \in RepoChoices }
    /\ opts \in { [Roots |-> rs, ManagedPaths |-> m, MaxFileSize |-> DefaultMaxFileSize,
                   Home |-> Home, SecretsMode |-> "error", ReportOnly |-> TRUE,
                   AutoYes |-> FALSE, DryRun |-> FALSE, NoCommit |-> FALSE] :
                    rs \in RootLists, m \in ManagedChoices }
    /\ pc = "scan"
    /\ result = EmptyResult
    /\ preSecrets = <<>>
    /\ Idle

\* Discoverer.Run from its start to its return
InitRun ==
    /\ \E w \in RunWorlds, m \in RunModes :
          /\ fs = [dirs |-> BaseDirs, files |-> BaseFiles, repos |-> w.repos,
                   denied |-> {}, broken |-> {}, statErr |-> {}]
          /\ opts = [Roots |-> w.roots, ManagedPaths |-> {},
                     MaxFileSize |-> DefaultMaxFileSize, Home |-> Home,
                     SecretsMode |-> m.SecretsMode, ReportOnly |-> m.ReportOnly,
                     AutoYes |-> m.AutoYes, DryRun |-> m.DryRun,
                     NoCommit |-> m.NoCommit]
          /\ input \in (IF m.AutoYes \/ m.ReportOnly THEN {<<>>} ELSE InputScripts)
    /\ pc = "scan"
    /\ result = EmptyResult
    /\ preSecrets = <<>>
    /\ ctxDone = FALSE
    /\ rootIdx = 1
    /\ todo = <<>>
    /\ scanErr = ""
    /\ lastClassify = NoCandidate
    /\ secIdx = 1
    /\ contents = <<>>
    /\ report = <<>>
    /\ prev = NoPrev
    /\ picked = {}
    /\ selected = <<>>
    /\ events = <<>>
    /\ manifest = NoFile
    /\ runErr = ""

\* Run up to the end of the secret pass, to be repeated on the same snapshot
InitTwice ==
    /\ fs \in { [dirs |-> BaseDirs, files |-> BaseFiles, repos |-> r,
                  denied |-> {}, broken |-> {}, statErr |-> {}] : r \in RepoChoices }
    /\ opts \in { [Roots |-> rs, ManagedPaths |-> m, MaxFileSize |-> DefaultMaxFileSize,
                   Home |-> Home, SecretsMode |-> sm, ReportOnly |-> TRUE,
                   AutoYes |-> FALSE, DryRun |-> FALSE, NoCommit |-> FALSE] :
                    rs \in RunRootLists, m \in ManagedChoices,
                    sm \in {"error", "ignore"} }
    /\ pc = "scan"
    /\ result = EmptyResult
    /\ preSecrets = <<>>
    /\ Idle

\* Scanner.Scan on a filesystem with unreadable entries
InitWalkErr ==
    /\ fs \in { [dirs |-> BaseDirs, files |-> BaseFiles, repos |-> r,
                  denied |-> dn, broken |-> br, statErr |-> {}] :
                   r \in RepoChoices, dn \in DeniedChoices, br \in BrokenChoices }
    /\ opts \in { [Roots |-> rs, ManagedPaths |-> {}, MaxFileSize |-> DefaultMaxFileSize,
                   Home |-> Home, SecretsMode |-> "error", ReportOnly |-> TRUE,
                   AutoYes |-> FALSE, DryRun |-> FALSE, NoCommit |-> FALSE] :
                    rs \in ErrRootLists }
    /\ pc = "scan"
    /\ result = EmptyResult
    /\ preSecrets = <<>>
    /\ Idle

\* Scanner.Scan with roots whose stat fails (the parent cannot be searched, or the
\* root is a symbolic link that cannot be resolved)
InitRootErr ==
    /\ \E w \in RootErrWorlds, r \in RepoChoices :
          /\ fs = [dirs |-> BaseDirs, files |-> BaseFiles, repos |-> r,
                   denied |-> {}, broken |-> {}, statErr |-> w.statErr]
          /\ opts = [Roots |-> w.roots, ManagedPaths |-> {},
                     MaxFileSize |-> DefaultMaxFileSize, Home |-> Home,
                     SecretsMode |-> "error", ReportOnly |-> TRUE,
                     AutoYes |-> FALSE, DryRun |-> FALSE, NoCommit |-> FALSE]
    /\ pc = "scan"
    /\ result = EmptyResult
    /\ preSecrets = <<>>
    /\ Idle

\* Scanner.Scan over ~/.config/nvim as a sub-repository with any of the metadata
InitGit ==
    /\ fs \in { [dirs |-> BaseDirs, files |-> BaseFiles, repos |-> (NvimDir :> g),
                  denied |-> {}, broken |-> {}, statErr |-> {}] :
                   g \in GitMetaChoices }
    /\ opts \in { [Roots |-> rs, ManagedPaths |-> {}, MaxFileSize |-> DefaultMaxFileSize,
                   Home |-> Home, SecretsMode |-> "error", ReportOnly |-> TRUE,
                   AutoYes |-> FALSE, DryRun |-> FALSE, NoCommit |-> FALSE] :
                    rs \in { <<NvimDir>>, <<DotConfig>> } }
    /\ pc = "scan"
    /\ result = EmptyResult
    /\ preSecrets = <<>>
    /\ Idle

\* Scanner.Scan on a single regular file given as root
InitClassify ==
    /\ \E d \in ClassifyDirs, n \in ClassifyNames, size \in ClassifySizes, managed \in BOOLEAN :
          /\ fs = [dirs |-> {}, files |-> (Append(d, n) :> size), repos |-> NoRepos,
                  denied |-> {}, broken |-> {}, statErr |-> {}]
          /\ opts = [Roots |-> <<Append(d, n)>>,
                     ManagedPaths |-> IF managed THEN {Append(d, n)} ELSE {},
                     MaxFileSize |-> DefaultMaxFileSize, Home |-> Home,
                     SecretsMode |-> "error", ReportOnly |-> TRUE,
                   AutoYes |-> FALSE, DryRun |-> FALSE, NoCommit |-> FALSE]
    /\ pc = "scan"
    /\ result = EmptyResult
    /\ preSecrets = <<>>
    /\ Idle

\* SecretDetector.UpdateCandidates called on a candidate list
InitSecrets ==
    /\ fs = [dirs |-> {}, files |-> [p \in SecretPaths |-> 100], repos |-> NoRepos,
            denied |-> {}, broken |-> {}, statErr |-> {}]
    /\ opts = [Roots |-> <<>>, ManagedPaths |-> {}, MaxFileSize |-> DefaultMaxFileSize,
               Home |-> Home, SecretsMode |-> "error", ReportOnly |-> TRUE,
                   AutoYes |-> FALSE, DryRun |-> FALSE, NoCommit |-> FALSE]
    /\ pc = "secrets"
    /\ \E l \in CandLists :
          /\ result = [EmptyResult EXCEPT !.Candidates = l]
          /\ preSecrets = l
    /\ Idle

---------------------------------------------------------------------------
(* Scanner.Scan                                                            *)

\* an entry of Result.Errors
ScanError(msg, path) == [err |-> msg, path |-> path]

\* one iteration of Scan's loop over the roots, up to the WalkDir call of scanRoot;
\* a root whose stat fails with an error other than not-exist has the error appended
ScanRoot ==
    /\ pc = "scan"
    /\ rootIdx <= Len(opts.Roots)
    /\ LET root == opts.Roots[rootIdx]
           isFile == root \in DOMAIN fs.files
       IN  IF ctxDone
           THEN /\ scanErr' = "context canceled"
                /\ pc' = "scanned"
                /\ UNCHANGED <<rootIdx, todo, result, lastClassify>>
           ELSE IF root \in fs.statErr
           THEN /\ result' = [result EXCEPT
                                !.Errors = Append(@, ScanError("stat: permission denied",
                                                               root))]
                /\ rootIdx' = rootIdx + 1
                /\ UNCHANGED <<pc, todo, scanErr, lastClassify>>
           ELSE IF root \notin Entries(fs)
           THEN /\ rootIdx' = rootIdx + 1
                /\ UNCHANGED <<pc, todo, result, scanErr, lastClassify>>
           ELSE IF isFile
           THEN /\ result' = processFile(root, fs.files[root], result, opts)
                /\ lastClassify' = IF ReachesClassify(root, fs.files[root], opts)
                                   THEN Classify(root, fs.files[root], FALSE, opts.Home)
                                   ELSE lastClassify
                /\ rootIdx' = rootIdx + 1
                /\ UNCHANGED <<pc, todo, scanErr>>
           ELSE /\ todo' = <<[path |-> root, readErr |-> FALSE]>>
                /\ pc' = "walk"
                /\ UNCHANGED <<rootIdx, result, scanErr, lastClassify>>
    /\ UNCHANGED <<fs, opts, ctxDone, secIdx, preSecrets, contents, report>>
    /\ UNCHANGED <<prev, runVars>>

\* a plausible slip: the callback hands an entry's error back to WalkDir, which
\* ends the walk of the root
VisitStopsOnError(e, rest) ==
    LET path == e.path
        isDir == path \in fs.dirs
        counted == [result EXCEPT !.ScannedDirs = @ + 1]
    IN  IF e.readErr
        THEN [res |-> [result EXCEPT
                         !.Errors = Append(@, ScanError("permission denied", path))],
              todo |-> <<>>]
        ELSE IF ctxDone
        THEN [res |-> [result EXCEPT
                         !.Errors = Append(@, ScanError("context canceled", <<>>))],
              todo |-> <<>>]
        ELSE IF path \in fs.broken
        THEN [res |-> [result EXCEPT
                         !.Errors = Append(@, ScanError("no such file", path))],
              todo |-> <<>>]
        ELSE IF isDir /\ shouldExcludeDir(path, Base(path))
        THEN [res |-> counted, todo |-> rest]
        ELSE IF isDir /\ IsSubRepo(fs, path)
        THEN [res |-> AppendSubRepo(counted, fs, path), todo |-> rest]
        ELSE IF isDir
        THEN [res |-> counted,
              todo |-> (IF path \in fs.denied
                        THEN <<[path |-> path, readErr |-> TRUE]>>
                        ELSE ReadDir(fs, path)) \o rest]
        ELSE [res |-> processFile(path, fs.files[path], result, opts), todo |-> rest]

\* what the WalkDir callback of scanRoot does for the entry at the head of todo:
\* the Result after it, the entries still to visit (empty when the walk is aborted).
\* An entry with readErr is WalkDir's second call for a directory it could not list;
\* the first call for that directory has returned nil before.
Visit(e, rest) ==
    LET path == e.path
        isDir == path \in fs.dirs
        counted == [result EXCEPT !.ScannedDirs = @ + 1]
    IN  IF e.readErr
        THEN [res |-> [result EXCEPT
                         !.Errors = Append(@, ScanError("permission denied", path))],
              todo |-> rest]
        ELSE IF ctxDone
        THEN [res |-> [result EXCEPT
                         !.Errors = Append(@, ScanError("context canceled", <<>>))],
              todo |-> <<>>]
        ELSE IF path \in fs.broken
        THEN [res |-> [result EXCEPT
                         !.Errors = Append(@, ScanError("no such file", path))],
              todo |-> rest]
        ELSE IF isDir /\ shouldExcludeDir(path, Base(path))
        THEN [res |-> counted, todo |-> rest]
        ELSE IF isDir /\ IsSubRepo(fs, path)
        THEN [res |-> AppendSubRepo(counted, fs, path), todo |-> rest]
        ELSE IF isDir
        THEN [res |-> counted,
              todo |-> (IF path \in fs.denied
                        THEN <<[path |-> path, readErr |-> TRUE]>>
                        ELSE ReadDir(fs, path)) \o rest]
        ELSE [res |-> processFile(path, fs.files[path], result, opts), todo |-> rest]

\* one callback of filepath.WalkDir; the walk of the root ends with the last entry
WalkStep ==
    /\ pc = "walk"
    /\ todo # <<>>
    /\ LET e == Head(todo)
           out == Visit(e, Tail(todo))
       IN  /\ result' = out.res
           /\ todo' = out.todo
           /\ lastClassify' =
                IF /\ ~ctxDone
                   /\ e.path \in DOMAIN fs.files
                   /\ e.path \notin fs.broken
                   /\ ReachesClassify(e.path, fs.files[e.path], opts)
                THEN Classify(e.path, fs.files[e.path], FALSE, opts.Home)
                ELSE lastClassify
           /\ IF out.todo = <<>>
              THEN pc' = "scan" /\ rootIdx' = rootIdx + 1
              ELSE UNCHANGED <<pc, rootIdx>>
    /\ UNCHANGED <<fs, opts, ctxDone, scanErr, secIdx, preSecrets, contents, report>>
    /\ UNCHANGED <<prev, runVars>>

\* a plausible slip: the result returned as collected, without the sort
ScanReturnNoSort ==
    /\ pc = "scan"
    /\ rootIdx > Len(opts.Roots)
    /\ scanErr' = ""
    /\ pc' = "scanned"
    /\ UNCHANGED <<fs, opts, ctxDone, rootIdx, todo, result, lastClassify, secIdx,
                   preSecrets, contents, report>>
    /\ UNCHANGED <<prev, runVars>>

\* the end of Scan: sort.Sort(result.Candidates) and return result, nil
ScanReturn ==
    /\ pc = "scan"
    /\ rootIdx > Len(opts.Roots)
    /\ result' = [result EXCEPT !.Candidates = SortCandidates(@)]
    /\ scanErr' = ""
    /\ pc' = "scanned"
    /\ UNCHANGED <<fs, opts, ctxDone, rootIdx, todo, lastClassify, secIdx, preSecrets,
                   contents, report>>
    /\ UNCHANGED <<prev, runVars>>

\* the context is cancelled while the scan or the secret pass runs
Cancel ==
    /\ ~ctxDone
    /\ pc \in {"scan", "walk", "secrets"}
    /\ ctxDone' = TRUE
    /\ UNCHANGED <<fs, opts, pc, rootIdx, todo, result, scanErr, lastClassify, secIdx,
                   preSecrets, contents, report>>
    /\ UNCHANGED <<prev, runVars>>

---------------------------------------------------------------------------
(* Discoverer.Run after the scan                                           *)

\* Run, lines 106-116: a failed scan ends the run, else the secret pass starts
AfterScan ==
    /\ pc = "scanned"
    /\ IF scanErr # ""
       THEN pc' = "done" /\ UNCHANGED preSecrets
       ELSE IF opts.SecretsMode # "ignore"
       THEN pc' = "secrets" /\ preSecrets' = result.Candidates
       ELSE pc' = "afterSecrets" /\ UNCHANGED preSecrets
    /\ UNCHANGED <<fs, opts, ctxDone, rootIdx, todo, result, scanErr, lastClassify,
                   secIdx, contents, report>>
    /\ UNCHANGED <<prev, runVars>>

\* one iteration of UpdateCandidates' loop
SecretStep ==
    /\ pc = "secrets"
    /\ secIdx <= Len(result.Candidates)
    /\ \E content \in ContentChoices(result.Candidates[secIdx], secIdx) :
          /\ result' = [result EXCEPT !.Candidates[secIdx] =
                                          updateCandidate(@, content, ctxDone)]
          /\ contents' = Append(contents, content)
    /\ secIdx' = secIdx + 1
    /\ UNCHANGED <<fs, opts, ctxDone, pc, rootIdx, todo, scanErr, lastClassify,
                   preSecrets, report>>
    /\ UNCHANGED <<prev, runVars>>

\* UpdateCandidates returns nil
SecretsReturn ==
    /\ pc = "secrets"
    /\ secIdx > Len(result.Candidates)
    /\ pc' = "afterSecrets"
    /\ UNCHANGED <<fs, opts, ctxDone, rootIdx, todo, result, scanErr, lastClassify,
                   secIdx, preSecrets, contents, report>>
    /\ UNCHANGED <<prev, runVars>>

\* the scan and the secret pass are run again: same filesystem, same options, same
\* already-managed set; the outcome of the first run is kept for comparison
Rerun ==
    /\ pc = "afterSecrets"
    /\ ~prev.done
    /\ prev' = [done |-> TRUE, cands |-> result.Candidates,
                paths |-> [i \in 1..Len(contents) |-> preSecrets[i].Path],
                contents |-> contents]
    /\ pc' = "scan"
    /\ rootIdx' = 1
    /\ todo' = <<>>
    /\ result' = EmptyResult
    /\ scanErr' = ""
    /\ lastClassify' = NoCandidate
    /\ secIdx' = 1
    /\ preSecrets' = <<>>
    /\ contents' = <<>>
    /\ UNCHANGED <<fs, opts, ctxDone, report, runVars>>

\* Run, lines 118-122: report-only mode prints the report and returns
Report ==
    /\ pc = "afterSecrets"
    /\ opts.ReportOnly
    /\ report' = PrintReport(result)
    /\ pc' = "done"
    /\ UNCHANGED <<fs, opts, ctxDone, rootIdx, todo, result, scanErr, lastClassify,
                   secIdx, preSecrets, contents>>
    /\ UNCHANGED <<prev, runVars>>

\* Run, line 125, and SelectCandidates up to its prompt: no candidates end the
\* selection at once, else the Recommended group is pre-selected
BeginSelect ==
    /\ pc = "afterSecrets"
    /\ ~opts.ReportOnly
    /\ IF result.Candidates = <<>>
       THEN /\ pc' = "selected"
            /\ events' = Append(events, Event("select", <<"empty">>, <<>>, TRUE))
            /\ UNCHANGED picked
       ELSE /\ pc' = "select"
            /\ picked' = PreSelected(result.Candidates)
            /\ UNCHANGED events
    /\ UNCHANGED <<fs, opts, ctxDone, rootIdx, todo, result, scanErr, lastClassify,
                   secIdx, preSecrets, contents, report>>
    /\ UNCHANGED <<prev, input, selected, manifest, runErr>>

\* SelectCandidates with autoYes: the pre-selected items are returned, in the order
\* the range over the selected map yields them
SelectAuto ==
    /\ pc = "select"
    /\ opts.AutoYes
    /\ selected' \in ItemsOf(picked, result.Candidates)
    /\ events' = Append(events, Event("select", <<"auto">>, <<>>, TRUE))
    /\ pc' = "selected"
    /\ UNCHANGED <<fs, opts, ctxDone, rootIdx, todo, result, scanErr, lastClassify,
                   secIdx, preSecrets, contents, report>>
    /\ UNCHANGED <<prev, input, picked, manifest, runErr>>

\* SelectCandidates, one turn of the interactive loop: a line is read and obeyed;
\* the end of the input ends the selection with nothing selected
SelectCmd ==
    /\ pc = "select"
    /\ ~opts.AutoYes
    /\ IF input = <<>>
       THEN /\ selected' = <<>>
            /\ events' = Append(events, Event("select", <<"eof">>, <<>>, FALSE))
            /\ pc' = "selected"
            /\ UNCHANGED <<input, picked>>
       ELSE /\ input' = Tail(input)
            /\ LET c == Head(input)
               IN  CASE c.kind = "accept" ->
                          /\ selected' \in ItemsOf(picked, result.Candidates)
                          /\ events' = Append(events,
                                              Event("select", <<"accept">>, <<>>, TRUE))
                          /\ pc' = "selected"
                          /\ UNCHANGED picked
                     [] c.kind = "quit" ->
                          /\ selected' = <<>>
                          /\ events' = Append(events,
                                              Event("select", <<"q">>, <<>>, FALSE))
                          /\ pc' = "selected"
                          /\ UNCHANGED picked
                     [] c.kind = "all" ->
                          /\ picked' = 1..Len(result.Candidates)
                          /\ UNCHANGED <<selected, events, pc>>
                     [] c.kind = "none" ->
                          /\ picked' = {}
                          /\ UNCHANGED <<selected, events, pc>>
                     [] c.kind = "parts" ->
                          /\ picked' = parseSelection(c.parts, picked, result.Candidates)
                          /\ UNCHANGED <<selected, events, pc>>
    /\ UNCHANGED <<fs, opts, ctxDone, rootIdx, todo, result, scanErr, lastClassify,
                   secIdx, preSecrets, contents, report>>
    /\ UNCHANGED <<prev, manifest, runErr>>

\* a plausible slip: the dry-run test left out
AfterSelectNoDryRun ==
    /\ pc = "selected"
    /\ IF selected = <<>>
       THEN pc' = "done" /\ UNCHANGED events
       ELSE \E yes \in (IF opts.AutoYes THEN {TRUE} ELSE BOOLEAN) :
               /\ events' = Append(events, Event("confirm add", <<>>, <<>>, yes))
               /\ pc' = IF ~yes THEN "done" ELSE "add"
    /\ UNCHANGED <<fs, opts, ctxDone, rootIdx, todo, result, scanErr, lastClassify,
                   secIdx, preSecrets, contents, report>>
    /\ UNCHANGED <<prev, input, picked, selected, manifest, runErr>>

\* Run, lines 130-148: an empty selection, a declined confirmation and dry-run mode
\* end the run; ConfirmAdd answers yes by itself with autoYes, else it reads a line
AfterSelect ==
    /\ pc = "selected"
    /\ IF selected = <<>>
       THEN pc' = "done" /\ UNCHANGED events
       ELSE \E yes \in (IF opts.AutoYes THEN {TRUE} ELSE BOOLEAN) :
               /\ events' = Append(events, Event("confirm add", <<>>, <<>>, yes))
               /\ pc' = IF ~yes \/ opts.DryRun THEN "done" ELSE "add"
    /\ UNCHANGED <<fs, opts, ctxDone, rootIdx, todo, result, scanErr, lastClassify,
                   secIdx, preSecrets, contents, report>>
    /\ UNCHANGED <<prev, input, picked, selected, manifest, runErr>>

\* the calls addCandidates makes and what it returns, given whether chezmoi add and
\* the manifest write succeed
AddOutcome(addOk, writeOk) ==
    LET files == AddFiles(selected)
        recs == Manifests(SubReposOf(selected), opts.Home)
        addEv == IF files = <<>> THEN <<>>
                 ELSE <<Event("chezmoi add", AddFlags(opts), files, addOk)>>
        writeEv == IF recs = <<>> THEN <<>>
                   ELSE <<Event("write manifest", <<>>, <<>>, writeOk)>>
    IN  IF files # <<>> /\ ~addOk
        THEN [events |-> addEv, manifest |-> manifest, err |-> "chezmoi add failed"]
        ELSE IF recs # <<>> /\ ~writeOk
        THEN [events |-> addEv \o writeEv, manifest |-> manifest,
              err |-> "write sub-repo manifest"]
        ELSE [events |-> addEv \o writeEv,
              manifest |-> IF recs = <<>> THEN manifest
                           ELSE [exists |-> TRUE, subrepo |-> recs],
              err |-> ""]

\* a plausible slip: the error of addCandidates not returned by Run
AddCandidatesThenCommit ==
    /\ pc = "add"
    /\ \E addOk, writeOk \in BOOLEAN :
          LET out == AddOutcome(addOk, writeOk)
          IN  /\ events' = events \o out.events
                              \o <<Event("addCandidates", <<>>, <<>>, out.err = "")>>
              /\ manifest' = out.manifest
              /\ runErr' = ""
              /\ pc' = "commit"
    /\ UNCHANGED <<fs, opts, ctxDone, rootIdx, todo, result, scanErr, lastClassify,
                   secIdx, preSecrets, contents, report>>
    /\ UNCHANGED <<prev, input, picked, selected>>

\* Run, lines 150-153, with addCandidates and handleSubRepos: chezmoi add for the
\* files, then the manifest for the sub-repositories with a remote; an error ends Run
AddCandidates ==
    /\ pc = "add"
    /\ \E addOk, writeOk \in BOOLEAN :
          LET out == AddOutcome(addOk, writeOk)
          IN  /\ events' = events \o out.events
                              \o <<Event("addCandidates", <<>>, <<>>, out.err = "")>>
              /\ manifest' = out.manifest
              /\ runErr' = out.err
              /\ pc' = IF out.err = "" THEN "commit" ELSE "done"
    /\ UNCHANGED <<fs, opts, ctxDone, rootIdx, todo, result, scanErr, lastClassify,
                   secIdx, preSecrets, contents, report>>
    /\ UNCHANGED <<prev, input, picked, selected>>

\* Run, lines 155-162: unless NoCommit, ConfirmCommit and then the commit
Commit ==
    /\ pc = "commit"
    /\ IF opts.NoCommit
       THEN UNCHANGED <<events, runErr>>
       ELSE \E yes \in (IF opts.AutoYes THEN {TRUE} ELSE BOOLEAN), ok \in BOOLEAN :
               /\ events' = events
                              \o <<Event("confirm commit", <<>>, <<>>, yes)>>
                              \o (IF yes THEN <<Event("git commit", <<>>, <<>>, ok)>>
                                  ELSE <<>>)
               /\ runErr' = IF yes /\ ~ok THEN "commit failed" ELSE ""
    /\ pc' = "done"
    /\ UNCHANGED <<fs, opts, ctxDone, rootIdx, todo, result, scanErr, lastClassify,
                   secIdx, preSecrets, contents, report>>
    /\ UNCHANGED <<prev, input, picked, selected, manifest>>

Next ==
    \/ ScanRoot
    \/ WalkStep
    \/ ScanReturn
    \/ Cancel
    \/ AfterScan
    \/ SecretStep
    \/ SecretsReturn
    \/ Report
    \/ BeginSelect

Spec == Init /\ [][Next]_vars

NextScan == ScanRoot \/ WalkStep \/ ScanReturn \/ Cancel

SpecScan == InitScan /\ [][NextScan]_vars

NextRun ==
    \/ ScanRoot
    \/ WalkStep
    \/ ScanReturn
    \/ AfterScan
    \/ SecretStep
    \/ SecretsReturn
    \/ Report
    \/ BeginSelect
    \/ SelectAuto
    \/ SelectCmd
    \/ AfterSelect
    \/ AddCandidates
    \/ Commit

SpecRun == InitRun /\ [][NextRun]_vars

NextTwice ==
    \/ ScanRoot
    \/ WalkStep
    \/ ScanReturn
    \/ AfterScan
    \/ SecretStep
    \/ SecretsReturn
    \/ Rerun

SpecTwice == InitTwice /\ [][NextTwice]_vars

NextGit ==
    \/ ScanRoot
    \/ WalkStep
    \/ ScanReturn

SpecGit == InitGit /\ [][NextGit]_vars

NextRootErr ==
    \/ ScanRoot
    \/ WalkStep
    \/ ScanReturn
    \/ Cancel

SpecRootErr == InitRootErr /\ [][NextRootErr]_vars

NextWalkErr == ScanRoot \/ WalkStep \/ ScanReturn

SpecWalkErr == InitWalkErr /\ [][NextWalkErr]_vars

NextClassify == ScanRoot \/ ScanReturn

SpecClassify == InitClassify /\ [][NextClassify]_vars

NextSecrets == SecretStep \/ SecretsReturn \/ Cancel

SpecSecrets == InitSecrets /\ [][NextSecrets]_vars

---------------------------------------------------------------------------
(* Properties                                                              *)

FileCand(c) == ~c.IsDir /\ ~c.IsSubRepo

\* the findings the content of a file yields when it is scanned to its end
Yields(content) == ScanFile(content, FALSE).findings

\* C1: after UpdateCandidates has handled a file candidate whose content yields at
\* least one finding, the candidate's category is Risky whatever it was before, and
\* every candidate that carries secret warnings has category Risky.
C1_FindingsForceRisky ==
    /\ \A i \in 1..Len(contents) :
          (FileCand(preSecrets[i]) /\ Yields(contents[i]) # <<>>)
              => result.Candidates[i].Category = CategoryRisky
    /\ \A i \in 1..Len(result.Candidates) :
          result.Candidates[i].SecretWarnings # <<>>
              => result.Candidates[i].Category = CategoryRisky

\* C2: UpdateCandidates leaves a candidate exactly as it was when it is a directory,
\* a sub-repository, a file that cannot be opened or a file without findings; a file
\* that cannot be opened does not end the pass: the call returns only after every
\* candidate was handled, and a later file with findings is still moved to Risky.
C2_ZeroFindingsUntouched ==
    /\ Len(result.Candidates) = Len(preSecrets)
    /\ \A i \in 1..Len(preSecrets) :
          (\/ i > Len(contents)
           \/ ~FileCand(preSecrets[i])
           \/ ~contents[i].open
           \/ Yields(contents[i]) = <<>>)
              => result.Candidates[i] = preSecrets[i]
    /\ pc = "afterSecrets" => Len(contents) = Len(preSecrets)
    /\ \A i, j \in 1..Len(contents) :
          (/\ i < j
           /\ FileCand(preSecrets[i]) /\ ~contents[i].open
           /\ FileCand(preSecrets[j])
           /\ ~ctxDone
           /\ ScanFile(contents[j], FALSE).err = "" /\ Yields(contents[j]) # <<>>
           /\ preSecrets[j].Category \in {CategoryRecommended, CategoryMaybe})
              => result.Candidates[j].Category = CategoryRisky

\* reached: the pass returned, an earlier file could not be opened and a later
\* Recommended file was moved to Risky
C2_Witness ==
    /\ pc = "afterSecrets"
    /\ \E i, j \in 1..Len(contents) :
          /\ i < j
          /\ FileCand(preSecrets[i]) /\ ~contents[i].open
          /\ result.Candidates[i] = preSecrets[i]
          /\ preSecrets[j].Category = CategoryRecommended
          /\ result.Candidates[j].Category = CategoryRisky

\* C3: no candidate of a scan has an ancestor directory whose name is in the
\* hard-exclusion list, whatever the roots are.
C3_NoCandidateUnderExcluded ==
    \A i \in 1..Len(result.Candidates) :
        \A k \in 1..(Len(result.Candidates[i].Path) - 1) :
            result.Candidates[i].Path[k] \notin excludeNames

\* C4: no file candidate of a scan lies below a directory of the scan's
\* sub-repository list, whatever the roots are.
C4_NoFileUnderSubRepo ==
    \A i \in 1..Len(result.Candidates) :
        \A j \in 1..Len(result.SubRepos) :
            FileCand(result.Candidates[i])
                => ~Below(result.Candidates[i].Path, result.SubRepos[j].Path)

\* C5: when Scan has returned without error, every adjacent pair of candidates is in
\* order: the earlier category is at least as high (Recommended, Maybe, Risky), and
\* for equal categories the earlier score is at least the later one.
C5_ScanResultSorted ==
    (pc = "scanned" /\ scanErr = "") =>
        \A i \in 1..(Len(result.Candidates) - 1) :
            LET a == result.Candidates[i]
                b == result.Candidates[i + 1]
            IN  /\ a.Category >= b.Category
                /\ a.Category = b.Category => a.Score >= b.Score

\* reached: a scan returned without error at least three candidates of two
\* categories and of different scores within one category
C5_Witness ==
    /\ pc = "scanned"
    /\ scanErr = ""
    /\ Len(result.Candidates) >= 3
    /\ \E i \in 1..(Len(result.Candidates) - 1) :
          /\ result.Candidates[i].Category = result.Candidates[i + 1].Category
          /\ result.Candidates[i].Score > result.Candidates[i + 1].Score
    /\ \E i \in 1..(Len(result.Candidates) - 1) :
          result.Candidates[i].Category > result.Candidates[i + 1].Category

\* the candidate lines of the report, in print order
ReportCands == SelectSeq(report, LAMBDA l : l.kind # "header")

\* C6: the report printed after the secret pass lists the categories in the order
\* Recommended, Maybe, Risky and, within a category, the scores never increase; this
\* includes the candidates the secret pass moved to Risky after the scan's sort.
C6_ReportOrdered ==
    (pc = "done" /\ opts.SecretsMode # "ignore") =>
        \A i, j \in 1..Len(ReportCands) :
            i < j =>
                /\ ReportCands[i].cat >= ReportCands[j].cat
                /\ ReportCands[i].cat = ReportCands[j].cat
                       => ReportCands[i].score >= ReportCands[j].score

\* reached: a report whose Risky group holds a candidate that was Recommended, one
\* that was Maybe and one the classifier's gate made Risky
C6_Witness ==
    /\ pc = "done"
    /\ opts.SecretsMode # "ignore"
    /\ \E i, j, k \in 1..Len(ReportCands) :
          /\ ReportCands[i].cat = CategoryRisky /\ ReportCands[i].score >= 70
          /\ ReportCands[j].cat = CategoryRisky
          /\ ReportCands[j].score > 0 /\ ReportCands[j].score < 70
          /\ ReportCands[k].cat = CategoryRisky /\ ReportCands[k].score = 0
    /\ \E i \in 1..Len(ReportCands) : ReportCands[i].cat = CategoryRecommended

\* Classify has been called (on the file given as root)
Classified == lastClassify.Path # <<>>

\* C7: Classify returns Risky with score 0 for every path that matches the risky
\* gate, whatever its basename, extension, location or size, and returns Risky for
\* no path that does not match the gate.
C7_GatePrecedence ==
    Classified =>
        LET p == lastClassify.Path
        IN  /\ isRisky(p, baseName(p))
                  => lastClassify.Category = CategoryRisky /\ lastClassify.Score = 0
            /\ ~isRisky(p, baseName(p)) => lastClassify.Category # CategoryRisky

\* reached: a file with a known config basename and a config-like extension was
\* classified Risky
C7_Witness ==
    /\ Classified
    /\ lastClassify.Category = CategoryRisky
    /\ KnownScore(lastClassify.Path) > 0
    /\ IsConfigExtension(lastClassify.Path)

C9_ConfigDirFileIsMaybe ==
    (/\ Classified
     /\ Below(lastClassify.Path, DotConfig)
     /\ ~isRisky(lastClassify.Path, baseName(lastClassify.Path))
     /\ KnownScore(lastClassify.Path) = 0
     /\ ~IsConfigExtension(lastClassify.Path))
        => lastClassify.Category = CategoryMaybe

\* C10: a regular file larger than MaxFileSize with a config-like extension, not
\* matching the gate and not already managed, is in the scan result with category
\* Maybe.
C10_OversizedConfigIsMaybe ==
    \A p \in DOMAIN fs.files :
        (/\ pc = "scanned"
         /\ scanErr = ""
         /\ p = opts.Roots[1]
         /\ fs.files[p] > opts.MaxFileSize
         /\ IsConfigExtension(p)
         /\ ~isRisky(p, baseName(p))
         /\ p \notin opts.ManagedPaths)
            => \E i \in 1..Len(result.Candidates) :
                  /\ result.Candidates[i].Path = p
                  /\ result.Candidates[i].Category = CategoryMaybe

\* C11: no regular file whose path is in ManagedPaths is a candidate of a scan,
\* whether the walk of a directory root reaches it or it is itself a root, and no
\* step of the scan changes ManagedPaths.
C11_ManagedNeverCandidate ==
    /\ [](\A i \in 1..Len(result.Candidates) :
             FileCand(result.Candidates[i])
                 => result.Candidates[i].Path \notin opts.ManagedPaths)
    /\ [][opts'.ManagedPaths = opts.ManagedPaths]_vars

\* reached: a scan returned after it met one managed file as a root and another in
\* the walk of a directory root, next to a sibling that became a candidate
C11_Witness ==
    /\ pc = "scanned"
    /\ scanErr = ""
    /\ opts.ManagedPaths = {SettingsFile, GitconfigFile}
    /\ \E i \in 1..Len(opts.Roots) : opts.Roots[i] = GitconfigFile
    /\ \E i \in 1..Len(opts.Roots) : opts.Roots[i] = DotConfig
    /\ \E i \in 1..Len(result.Candidates) : result.Candidates[i].Path = TokenFile
    /\ \A i \in 1..Len(result.Candidates) :
          result.Candidates[i].Path \notin opts.ManagedPaths

\* the callback returns nil for directory d, so that WalkDir goes on to list it
Passable(d) ==
    /\ d \in fs.dirs
    /\ d \notin fs.broken
    /\ ~shouldExcludeDir(d, Base(d))
    /\ ~IsSubRepo(fs, d)

\* the walk of directory root calls the callback for p: every directory from root
\* down to p's parent was passed and could be listed
Visited(p, root) ==
    /\ root \in fs.dirs
    /\ p = root \/ Below(p, root)
    /\ \A k \in Len(root)..(Len(p) - 1) :
          Passable(SubSeq(p, 1, k)) /\ SubSeq(p, 1, k) \notin fs.denied

\* the (root index, file) pairs for which processFile is called in a whole scan
FilesProcessed ==
    { <<i, p>> \in (1..Len(opts.Roots)) \X DOMAIN fs.files :
        \/ opts.Roots[i] = p
        \/ Visited(p, opts.Roots[i]) /\ p \notin fs.broken }

HasError(p) == \E k \in 1..Len(result.Errors) : result.Errors[k].path = p

\* C12: an entry that cannot be read (a directory whose listing is denied, a file
\* whose info cannot be read) gets an entry in Result.Errors and does not stop the
\* scan: every other entry of that root and of the later roots is still processed,
\* every file among them that classifies above Ignored is a candidate, and Scan
\* returns a nil error.
C12_EntryErrorsDoNotStopScan ==
    pc = "scanned" =>
        /\ scanErr = ""
        /\ result.ScannedFiles = Cardinality(FilesProcessed)
        /\ \A x \in FilesProcessed :
              (/\ ReachesClassify(x[2], fs.files[x[2]], opts)
               /\ Classify(x[2], fs.files[x[2]], FALSE, opts.Home).Category
                      # CategoryIgnored)
                  => \E c \in 1..Len(result.Candidates) :
                        result.Candidates[c].Path = x[2]
        /\ \A i \in 1..Len(opts.Roots) :
              /\ \A d \in fs.denied :
                    (Visited(d, opts.Roots[i]) /\ Passable(d)) => HasError(d)
              /\ \A f \in fs.broken : Visited(f, opts.Roots[i]) => HasError(f)

\* reached: a scan returned with the error of a denied directory and the error of an
\* unreadable file, a candidate from a sibling that sorts after the denied
\* directory, and a candidate from a later root
C12_Witness ==
    /\ pc = "scanned"
    /\ scanErr = ""
    /\ opts.Roots = <<DotConfig, GitconfigFile>>
    /\ HasError(AppDir)
    /\ HasError(OptsLuaFile)
    /\ \E c \in 1..Len(result.Candidates) : result.Candidates[c].Path = InitLuaFile
    /\ \E c \in 1..Len(result.Candidates) : result.Candidates[c].Path = GitconfigFile

\* the walk of a root was ended by the cancelled context before its last entry
CutShort ==
    \E k \in 1..Len(result.Errors) : result.Errors[k].err = "context canceled"

\* C13: when the context is cancelled while Scan runs, before a root or in the
\* middle of the walk of any root, the last one included, Scan returns a non-nil
\* cancellation error with what it collected; a scan cut short never returns nil.
C13_CancelledScanReturnsError ==
    (pc = "scanned" /\ CutShort) => scanErr # ""

\* path, category and score of every candidate, in list order
Outcome(cands) ==
    [i \in 1..Len(cands) |-> <<cands[i].Path, cands[i].Category, cands[i].Score>>]

RemoteSelected ==
    { i \in 1..Len(selected) : selected[i].IsSubRepo /\ selected[i].SubRepoURL # "" }

\* has addCandidates returned without an error
AddReturnedOk ==
    \E i \in 1..Len(events) : events[i].op = "addCandidates" /\ events[i].ok

C15_WitnessLocalOnly ==
    /\ AddReturnedOk
    /\ selected # <<>>
    /\ \A i \in 1..Len(selected) : selected[i].IsSubRepo /\ selected[i].SubRepoURL = ""
    /\ ~manifest.exists

\* a record without a branch was written
C15_WitnessNoBranch ==
    /\ manifest.exists
    /\ \E j \in 1..Len(manifest.subrepo) : manifest.subrepo[j].branch = ""


\* the calls of the file-copy tool made so far
AddCalls == SelectSeq(events, LAMBDA e : e.op = "chezmoi add")

\* C16: whenever chezmoi add is invoked, no path handed to it is the path of a
\* selected sub-repository candidate, and every selected candidate that is no
\* sub-repository is handed to it.
C16_NoSubRepoInAddList ==
    \A k \in 1..Len(AddCalls) :
        /\ \A n \in 1..Len(AddCalls[k].files) :
              \A i \in 1..Len(selected) :
                  selected[i].IsSubRepo => selected[i].Path # AddCalls[k].files[n]
        /\ \A i \in 1..Len(selected) :
              ~selected[i].IsSubRepo =>
                  \E n \in 1..Len(AddCalls[k].files) :
                      AddCalls[k].files[n] = selected[i].Path

\* chezmoi add ran for a selection that held a sub-repository next to a file
C16_Witness ==
    /\ AddCalls # <<>>
    /\ \E i \in 1..Len(selected) : selected[i].IsSubRepo


\* the positions of the log holding a call of the given kind
Calls(op) == { i \in 1..Len(events) : events[i].op = op }

\* C17: a commit is invoked only after addCandidates of the same run has returned
\* without an error, every chezmoi add and manifest write of the run came before it
\* and succeeded, and the commit confirmation just before it was accepted; no commit
\* is invoked in report-only mode, in dry-run mode, with NoCommit, with an empty
\* selection or without an accepted add confirmation.
C17_CommitOnlyAfterAdd ==
    \A i \in Calls("git commit") :
        /\ \E j \in Calls("addCandidates") : j < i /\ events[j].ok
        /\ \A j \in Calls("chezmoi add") \cup Calls("write manifest") :
              j < i /\ events[j].ok
        /\ i > 1 /\ events[i - 1].op = "confirm commit" /\ events[i - 1].ok
        /\ \E j \in Calls("confirm add") : j < i /\ events[j].ok
        /\ ~opts.ReportOnly /\ ~opts.DryRun /\ ~opts.NoCommit
        /\ selected # <<>>

\* a commit was invoked after both chezmoi add and the manifest write
C17_Witness ==
    /\ Calls("git commit") # {}
    /\ Calls("chezmoi add") # {}
    /\ Calls("write manifest") # {}

\* the add step failed and the run is over
C17_WitnessAddFailed ==
    /\ pc = "done"
    /\ \E j \in Calls("addCandidates") : ~events[j].ok
    /\ ~opts.NoCommit


\* has the run added, written or committed anything
Acted ==
    \/ Calls("chezmoi add") \cup Calls("write manifest") \cup Calls("git commit") # {}
    \/ manifest.exists

\* how the selection ended: "auto", "accept", "q", "eof" or "empty"
SelectionEnded(how) == \E i \in Calls("select") : events[i].flags = <<how>>

C18_WitnessDryRun ==
    /\ pc = "done"
    /\ opts.DryRun
    /\ \E j \in Calls("confirm add") : events[j].ok

\* a run is over after 'q' with candidates pre-selected
C18_WitnessQuit == pc = "done" /\ SelectionEnded("q") /\ picked # {}

\* a run is over after the input ended with candidates selected
C18_WitnessEndOfInput == pc = "done" /\ SelectionEnded("eof") /\ picked # {}

\* a run is over after a declined add confirmation
C18_WitnessDeclined ==
    pc = "done" /\ \E j \in Calls("confirm add") : ~events[j].ok

\* a report-only run is over
C18_WitnessReportOnly == pc = "done" /\ opts.ReportOnly /\ result.Candidates # <<>>


\* the positions of the candidates that are Recommended when the selection starts
RecommendedNow ==
    { i \in 1..Len(result.Candidates) :
        result.Candidates[i].Category = CategoryRecommended }

\* C19: with AutoYes, what SelectCandidates returns is, up to order, the list of the
\* candidates that are Recommended after the secret pass: each of them once, and no
\* Maybe or Risky candidate.
C19_AutoYesSelectsRecommended ==
    (opts.AutoYes /\ Calls("select") # {}) =>
        /\ \A j \in 1..Len(selected) : selected[j].Category = CategoryRecommended
        /\ \E f \in [1..Len(selected) -> RecommendedNow] :
              /\ \A i \in RecommendedNow : \E j \in 1..Len(selected) : f[j] = i
              /\ \A j, k \in 1..Len(selected) : j # k => f[j] # f[k]
              /\ \A j \in 1..Len(selected) : selected[j] = result.Candidates[f[j]]

\* an automatic selection was made while the secret pass had moved a Recommended
\* candidate to Risky and another candidate was Maybe
C19_Witness ==
    /\ opts.AutoYes
    /\ SelectionEnded("auto")
    /\ selected # <<>>
    /\ Len(preSecrets) = Len(result.Candidates)
    /\ \E i \in 1..Len(preSecrets) :
          /\ preSecrets[i].Category = CategoryRecommended
          /\ result.Candidates[i].Category = CategoryRisky
    /\ \E i \in 1..Len(result.Candidates) :
          result.Candidates[i].Category = CategoryMaybe


\* the flag the documentation of --secrets describes for a mode
SecretsFlag(m) ==
    IF m = "error" THEN "--secrets=error"
    ELSE IF m = "warning" THEN "--secrets=warning"
    ELSE "--secrets=ignore"

\* C20: every invocation of chezmoi add carries the flag --secrets=m for the secrets
\* mode m of the run, whichever of error, warning and ignore it is.
C20_SecretsModePassedThrough ==
    \A k \in 1..Len(AddCalls) : AddCalls[k].flags = <<SecretsFlag(opts.SecretsMode)>>


\* the roots Scan has dealt with whose stat failed
FailedRoots ==
    { i \in 1..Len(opts.Roots) :
        /\ opts.Roots[i] \in fs.statErr
        /\ \E k \in 1..Len(result.Errors) :
              result.Errors[k] = ScanError("stat: permission denied", opts.Roots[i]) }

\* C21: when Scan returns after the stat of a root has failed with an error other
\* than not-exist, it returns a non-nil error.
C21_RootStatErrorReturned ==
    (pc = "scanned" /\ FailedRoots # {}) => scanErr # ""


\* candidate i is a file with secret-looking content that the pass left as it was
\* because the context was cancelled when its file was scanned: the file opens, has no
\* over-long line and yields findings when read to its end
SkippedByCancel(i) ==
    /\ ctxDone
    /\ FileCand(preSecrets[i])
    /\ contents[i].open
    /\ ScanFile(contents[i], FALSE).err = ""
    /\ Yields(contents[i]) # <<>>
    /\ result.Candidates[i] = preSecrets[i]

\* C22: Run is past the secret pass, at the report or the selection, only when no file
\* candidate was skipped by the pass because of a cancellation.
C22_CancelledSecretPassStopsRun ==
    pc \in {"afterSecrets", "select", "selected"} =>
        \A i \in 1..Len(contents) : ~SkippedByCancel(i)


\* the metadata of the repository at p cannot be read: the .git file, the config
\* file or the HEAD file it leads to is missing or unreadable
Malformed(p) ==
    \/ getRemoteURL(fs.repos[p], p).err # ""
    \/ getCurrentBranch(fs.repos[p], p).err # ""

\* C23: when the scan has returned, every sub-repository it came across whose
\* metadata is malformed or unreadable has an error for its path in Result.Errors.
C23_MalformedMetadataRecorded ==
    pc = "scanned" =>
        \A p \in DOMAIN fs.repos :
            (Malformed(p) /\ \E i \in 1..Len(opts.Roots) : Visited(p, opts.Roots[i]))
                => HasError(p)


\* the url lines of a config file that stand in a [remote "origin"] section
OriginLines(lines) ==
    { n \in 1..Len(lines) :
        /\ lines[n].kind = "url"
        /\ \E k \in 1..(n - 1) :
              /\ lines[k].kind = "section" /\ lines[k].origin
              /\ \A j \in (k + 1)..(n - 1) : lines[j].kind # "section" }

\* the repository at p has a readable config file whose first origin url line
\* carries a non-empty value
OriginFound(p) ==
    LET m == MetaPath(fs.repos[p], p, ConfigName)
    IN  /\ m.err = ""
        /\ m.path \in DOMAIN fs.repos[p].store
        /\ LET lines == fs.repos[p].store[m.path].lines
           IN  /\ OriginLines(lines) # {}
               /\ \E n \in OriginLines(lines) :
                     /\ \A k \in OriginLines(lines) : n <= k
                     /\ lines[n].val # ""

\* C24: every sub-repository the walk has come across has its candidate in the
\* result and no error; the candidate is Recommended with score 100 and carries the
\* URL when an origin remote URL was found, and is Maybe with score 50 and an empty
\* URL otherwise.
C24_AnalyzeScoresByRemote ==
    /\ \A k \in 1..Len(result.SubRepos) :
          LET c == result.SubRepos[k]
          IN  /\ c.IsSubRepo /\ c.IsDir
              /\ OriginFound(c.Path) =>
                    /\ c.Category = CategoryRecommended
                    /\ c.Score = 100
                    /\ c.SubRepoURL # ""
              /\ ~OriginFound(c.Path) =>
                    /\ c.Category = CategoryMaybe
                    /\ c.Score = 50
                    /\ c.SubRepoURL = ""
    /\ pc = "scanned" =>
          \A p \in DOMAIN fs.repos :
              (\E i \in 1..Len(opts.Roots) : Visited(p, opts.Roots[i])) =>
                  /\ \E k \in 1..Len(result.SubRepos) : result.SubRepos[k].Path = p
                  /\ \E k \in 1..Len(result.Candidates) : result.Candidates[k].Path = p
                  /\ ~HasError(p)

\* a repository whose config names only another remote was analysed as local-only
C24_Witness ==
    /\ pc = "scanned"
    /\ \E k \in 1..Len(result.SubRepos) :
          LET c == result.SubRepos[k]
              m == MetaPath(fs.repos[c.Path], c.Path, ConfigName)
          IN  /\ c.Category = CategoryMaybe /\ c.Score = 50
              /\ m.path \in DOMAIN fs.repos[c.Path].store
              /\ \E n \in 1..Len(fs.repos[c.Path].store[m.path].lines) :
                    fs.repos[c.Path].store[m.path].lines[n] = URLLine(UpstreamURL)

\* a repository with an origin remote was analysed as Recommended
C24_WitnessRemote ==
    /\ pc = "scanned"
    /\ \E k \in 1..Len(result.SubRepos) :
          /\ result.SubRepos[k].Category = CategoryRecommended
          /\ result.SubRepos[k].SubRepoURL = OriginURL


\* the value of the first origin url line of a config file, "" when there is none
FirstOriginURL(lines) ==
    IF OriginLines(lines) = {} THEN ""
    ELSE lines[CHOOSE n \in OriginLines(lines) : \A k \in OriginLines(lines) : n <= k].val

\* the .git entry of the repository at p is a readable file with content "gitdir: P"
IsPointer(p) ==
    /\ fs.repos[p].dotgit = "file"
    /\ fs.repos[p].pointer.readable
    /\ fs.repos[p].pointer.gitdir

\* C25: for a repository whose .git is a file with content "gitdir: P", the
\* candidate's URL is the origin URL of the file P/config and its branch the branch
\* HEAD refers to in P/HEAD, with P taken as it stands when absolute and resolved
\* against the repository directory when relative (for ~/.config/nvim both point to
\* ~/.git/modules/nvim); a missing file or a HEAD holding a commit hash gives an
\* empty value, and the candidate is still there.
C25_GitdirPointerFollowed ==
    /\ \A k \in 1..Len(result.SubRepos) :
          LET c == result.SubRepos[k]
              g == fs.repos[c.Path]
              P == IF g.pointer.abs THEN g.pointer.target
                   ELSE Home \o SubSeq(g.pointer.target, 3, Len(g.pointer.target))
              cfg == Append(P, ConfigName)
              hd == Append(P, HeadName)
          IN  IsPointer(c.Path) =>
                /\ c.Path = NvimDir => P = GitModulesNvim
                /\ c.SubRepoURL = IF cfg \in DOMAIN g.store
                                  THEN FirstOriginURL(g.store[cfg].lines) ELSE ""
                /\ c.SubRepoBranch = IF hd \in DOMAIN g.store /\ g.store[hd].ref
                                     THEN g.store[hd].branch ELSE ""
    /\ pc = "scanned" =>
          \A p \in DOMAIN fs.repos :
              (IsPointer(p) /\ \E i \in 1..Len(opts.Roots) : Visited(p, opts.Roots[i]))
                  => \E k \in 1..Len(result.SubRepos) : result.SubRepos[k].Path = p

\* a relative pointer was followed to a config with an origin remote and to a HEAD
\* holding a commit hash
C25_Witness ==
    /\ pc = "scanned"
    /\ \E k \in 1..Len(result.SubRepos) :
          LET c == result.SubRepos[k]
          IN  /\ IsPointer(c.Path)
              /\ ~fs.repos[c.Path].pointer.abs
              /\ c.SubRepoURL = OriginURL
              /\ c.SubRepoBranch = ""
              /\ Append(GitModulesNvim, HeadName) \in DOMAIN fs.repos[c.Path].store

\* an absolute pointer was followed to a HEAD naming a branch
C25_WitnessAbsolute ==
    /\ pc = "scanned"
    /\ \E k \in 1..Len(result.SubRepos) :
          LET c == result.SubRepos[k]
          IN  /\ IsPointer(c.Path)
              /\ fs.repos[c.Path].pointer.abs
              /\ c.SubRepoBranch = "main"


\* the file lies below a directory whose name is, or contains, "config"
UnderConfigDir(path) ==
    \E k \in 1..(Len(path) - 1) : Contains(ToLower(path[k]), <<"config">>)

\* C26: a classified file carries the reason "in config directory" only when it lies
\* below a configuration directory; ~/.gitconfig with 50 bytes is Recommended and its
\* score is the known-filename bonus plus the home-dotfile bonus of 40.
C26_ConfigBonusOnlyUnderConfigDir ==
    (Classified /\ lastClassify.Category # CategoryRisky) =>
        /\ (\E i \in 1..Len(lastClassify.Reasons) :
               lastClassify.Reasons[i] = "in config directory")
              => UnderConfigDir(lastClassify.Path)
        /\ (lastClassify.Path = GitconfigFile /\ lastClassify.Size = 50) =>
              /\ lastClassify.Category = CategoryRecommended
              /\ lastClassify.Score = KnownBoost(<<".", "git", "config">>) + 40

\* C30: a file directly inside ~/.ssh whose name IsSafeSSHFile accepts is not
\* classified Risky.
C30_SafeSSHFilesNotRisky ==
    (/\ Classified
     /\ Dir(lastClassify.Path) = SshDir
     /\ IsSafeSSHFile(Base(lastClassify.Path)))
        => lastClassify.Category # CategoryRisky


\* the line about to be read at the selection prompt is one bare item number
BareNumberNext ==
    /\ pc = "select"
    /\ ~opts.AutoYes
    /\ input # <<>>
    /\ Head(input).kind = "parts"
    /\ Len(Head(input).parts) = 1
    /\ Head(input).parts[1].sign = ""

\* C27: a line holding one bare item number toggles that item: a displayed number
\* that is selected becomes unselected, one that is not selected becomes selected,
\* and a number that names no displayed item leaves the selection as it is.
C27_BareNumberToggles ==
    [][BareNumberNext =>
          LET n == Head(input).parts[1].num
          IN  picked' = IF n \notin 1..Len(result.Candidates) THEN picked
                        ELSE IF n \in picked THEN picked \ {n}
                        ELSE picked \cup {n}]_vars


\* C28: when the scan has returned, no path appears twice in Result.Candidates and
\* none twice in Result.SubRepos, whatever the roots, overlapping ones included.
C28_NoDuplicatePaths ==
    pc = "scanned" =>
        /\ \A i, j \in 1..Len(result.Candidates) :
              i # j => result.Candidates[i].Path # result.Candidates[j].Path
        /\ \A i, j \in 1..Len(result.SubRepos) :
              i # j => result.SubRepos[i].Path # result.SubRepos[j].Path


\* C29: a Recommended or Maybe file candidate for which ScanFile returned findings
\* together with an error (the context not being cancelled) is Risky and carries the
\* warnings after UpdateCandidates has handled it.
C29_FindingsSurviveErrors ==
    \A i \in 1..Len(contents) :
        (/\ ~ctxDone
         /\ FileCand(preSecrets[i])
         /\ preSecrets[i].Category \in {CategoryRecommended, CategoryMaybe}
         /\ ScanFile(contents[i], FALSE).findings # <<>>
         /\ ScanFile(contents[i], FALSE).err # "")
            => /\ result.Candidates[i].Category = CategoryRisky
               /\ result.Candidates[i].SecretWarnings # <<>>


====
